---- MODULE Spec2Model ----
(***************************************************************************)
(* FinAnalytics backend: the budget store and its overlap rule, the goal   *)
(* balance operations, the goal progress classification, and the           *)
(* classifier client with the transaction-creation flow that calls it.     *)
(*                                                                         *)
(* Each subsystem has its own specification over the shared variables:     *)
(*   SpecBudgetSeq   BudgetsService create/update/delete, one call at a    *)
(*                   time (each call is one step)                          *)
(*   SpecBudgetConc  two BudgetsService.create requests whose overlap      *)
(*                   query and insert are separate store round trips       *)
(***************************************************************************)
EXTENDS Integers, Sequences, FiniteSets, TLC

\* ------------------------------------------------------------------ bounds
MaxBudgets == 2          \* budget ids handed out by the store: 1..MaxBudgets
MaxTime    == 2          \* instants 0..MaxTime for startAt / endAt
MaxGoals   == 1          \* goal ids handed out by the store: 1..MaxGoals
MaxAmount  == 2          \* request amounts: 1..MaxAmount cents
MaxBalance == 3          \* allocate is tried only up to this balance, in cents
MaxElapsed == 4          \* seconds a pending classifier call is followed for
MaxClock == 6            \* instants of the progress clock, in half days
MaxLedger == 2           \* transactions in the ledger a summary is computed over
MaxTx == 1               \* transactions created

\* ------------------------------------------------------------------ users
\* AuthUser {id, role}: an ordinary user and an administrator (who can own
\* rows as well).
Users == {"u1", "admin"}

RoleOf(u) == IF u = "admin" THEN "ADMIN" ELSE "USER"

\* Rows of the category table; "cX" is an id that is not in the table.
Categories == {"c1"}

NoCategory == "null"     \* categoryId null: an overall budget
Absent     == "absent"   \* a field left out of a partial-update body
NoTime     == 0 - 1      \* startAt / endAt left out of a partial-update body

Instants == 0..MaxTime

VARIABLES
  budgets,        \* the budget table: a set of rows
  nextBudgetId,   \* the next id the store hands out
  budgetResult,   \* outcome of the last BudgetsService call (sequential runs)
  breq,           \* the in-flight create requests (concurrent runs)
  bcall,          \* the BudgetsService call being answered (logged runs)
  goals,          \* the goal table: a set of rows
  nextGoalId,     \* the next id the store hands out
  glast,          \* the last completed GoalsService call (sequential runs)
  greq,           \* the in-flight allocate / withdraw requests (concurrent runs)
  timeoutMs,      \* MlService.timeoutMs, fixed at construction (in seconds)
  ml,             \* the MlService call in flight
  ledger,         \* rows of the transaction table
  nextTxId,       \* next transaction id the store hands out
  tx,             \* the TransactionsService.create call in flight
  pgoal,          \* the goal row handed to enrichWithProgress
  clock,          \* Date.now(), in half days
  progress,       \* what enrichWithProgress returned for pgoal at clock
  summary,        \* what the last summary / alerts read returned
  agg,            \* the BudgetsService.getAlerts call in flight
  access,         \* the by-id or list call being answered, with what it found
  feedback        \* the latest MlService.sendFeedback call

vars == <<budgets, nextBudgetId, budgetResult, breq, bcall, goals, nextGoalId, glast, greq,
          timeoutMs, ml, ledger, nextTxId, tx, pgoal, clock, progress, summary,
          agg, access, feedback>>

budgetVars == <<budgets, nextBudgetId, budgetResult, breq, bcall>>

goalVars == <<goals, nextGoalId, glast, greq>>

\* What a BudgetsService step leaves alone, and what a GoalsService step does.
mlVars == <<timeoutMs, ml>>

txVars == <<ledger, nextTxId, tx>>

progressVars == <<pgoal, clock, progress>>

summaryVars == <<summary, agg>>

accessVars == <<access>>

feedbackVars == <<feedback>>

notBudgetVars == <<goalVars, mlVars, txVars, progressVars, summaryVars, accessVars,
    feedbackVars>>

notGoalVars == <<budgetVars, mlVars, txVars, progressVars, summaryVars, accessVars,
    feedbackVars>>

notMlVars == <<budgetVars, goalVars, txVars, progressVars, summaryVars, accessVars,
    feedbackVars>>

notTxVars == <<budgetVars, goalVars, mlVars, progressVars, summaryVars, accessVars,
    feedbackVars>>

notProgressVars == <<budgetVars, goalVars, mlVars, txVars, summaryVars, accessVars,
    feedbackVars>>

\* A summary read touches neither table; recording a transaction touches the
\* ledger only.
notSummaryVars == <<nextBudgetId, budgetResult, breq, bcall, goalVars, mlVars,
                    nextTxId, tx, progressVars, agg, accessVars,
                    feedbackVars>>

\* getAlerts reads the tables and keeps its own locals.
notAggVars == <<budgetVars, goalVars, mlVars, txVars, progressVars, summary,
                accessVars, feedbackVars>>

\* ------------------------------------------------------------- the store
BudgetRow(id, userId, categoryId, startAt, endAt) ==
  [id |-> id, userId |-> userId, categoryId |-> categoryId,
   startAt |-> startAt, endAt |-> endAt]

BudgetById(id) == CHOOSE b \in budgets : b.id = id

BudgetExists(id) == \E b \in budgets : b.id = id

\* dto.categoryId ?? null
OrNull(categoryId) == IF categoryId = Absent THEN NoCategory ELSE categoryId

\* `if (dto.categoryId)`: a non-empty string
Truthy(categoryId) == categoryId \notin {Absent, NoCategory}

\* BudgetsService.findAndAuthorise: "not_found", "forbidden" or "ok"
BudgetAuthorise(id, userId, userRole) ==
  IF ~BudgetExists(id) THEN "not_found"
  ELSE IF userRole # "ADMIN" /\ BudgetById(id).userId # userId THEN "forbidden"
  ELSE "ok"

\* The findFirst of checkOverlap over the table `rows`: TRUE when a row of
\* (userId, categoryId ?? null) other than excludeId satisfies
\* startAt < endAt' and endAt > startAt'.  excludeId = 0 stands for "not given".
MutCheckOverlapInclusive(rows, userId, categoryId, startAt, endAt, excludeId) ==
  \E b \in rows :
    /\ b.userId = userId
    /\ b.categoryId = OrNull(categoryId)
    /\ b.startAt <= endAt
    /\ b.endAt >= startAt
    /\ (excludeId # 0 => b.id # excludeId)

CheckOverlap(rows, userId, categoryId, startAt, endAt, excludeId) ==
  \E b \in rows :
    /\ b.userId = userId
    /\ b.categoryId = OrNull(categoryId)
    /\ b.startAt < endAt
    /\ b.endAt > startAt
    /\ (excludeId # 0 => b.id # excludeId)

\* ------------------------------------------------- BudgetsService.create
\* The validation of create, in the code's order, against the table `rows`.
CreateOutcome(rows, userId, categoryId, startAt, endAt) ==
  IF endAt <= startAt THEN "bad_request"
  ELSE IF Truthy(categoryId) /\ categoryId \notin Categories THEN "not_found"
  ELSE IF CheckOverlap(rows, userId, categoryId, startAt, endAt, 0) THEN "conflict"
  ELSE "created"

\* What one call of create does to the store.
BudgetCreateStep(userId, categoryId, startAt, endAt) ==
  /\ nextBudgetId <= MaxBudgets
  /\ LET out == CreateOutcome(budgets, userId, categoryId, startAt, endAt) IN
     /\ budgetResult' = out
     /\ IF out = "created"
        THEN /\ budgets' = budgets \cup
                  {BudgetRow(nextBudgetId, userId, OrNull(categoryId), startAt, endAt)}
             /\ nextBudgetId' = nextBudgetId + 1
        ELSE UNCHANGED <<budgets, nextBudgetId>>

BudgetCreate ==
  \E userId \in Users, categoryId \in {Absent, "c1", "cX"},
     startAt \in Instants, endAt \in Instants :
    /\ BudgetCreateStep(userId, categoryId, startAt, endAt)
    /\ UNCHANGED <<breq, bcall, notBudgetVars>>

\* ------------------------------------------------- BudgetsService.update
UpdateOutcome(id, userId, userRole, categoryId, startAt, endAt) ==
  LET auth == BudgetAuthorise(id, userId, userRole) IN
  IF auth # "ok" THEN auth
  ELSE
    LET existing      == BudgetById(id)
        newStart      == IF startAt # NoTime THEN startAt ELSE existing.startAt
        newEnd        == IF endAt # NoTime THEN endAt ELSE existing.endAt
        newCategoryId == IF categoryId # Absent THEN categoryId ELSE existing.categoryId
        windowChanged == startAt # NoTime \/ endAt # NoTime \/ categoryId # Absent
    IN
    IF newEnd <= newStart THEN "bad_request"
    ELSE IF Truthy(categoryId) /\ categoryId \notin Categories THEN "not_found"
    ELSE IF windowChanged
            /\ CheckOverlap(budgets, userId, newCategoryId, newStart, newEnd, id)
      THEN "conflict"
    ELSE "updated"

\* What one call of update does to the store.
BudgetUpdateStep(id, userId, categoryId, startAt, endAt) ==
  LET out == UpdateOutcome(id, userId, RoleOf(userId), categoryId, startAt, endAt) IN
  /\ budgetResult' = out
  /\ IF out = "updated"
     THEN LET existing == BudgetById(id) IN
          budgets' = (budgets \ {existing}) \cup
            {[existing EXCEPT
               !.categoryId = IF categoryId # Absent THEN categoryId ELSE @,
               !.startAt    = IF startAt # NoTime THEN startAt ELSE @,
               !.endAt      = IF endAt # NoTime THEN endAt ELSE @]}
     ELSE UNCHANGED budgets
  /\ UNCHANGED nextBudgetId

BudgetUpdate ==
  \E id \in 1..MaxBudgets, userId \in Users,
     categoryId \in {Absent, NoCategory, "c1", "cX"},
     startAt \in Instants \cup {NoTime}, endAt \in Instants \cup {NoTime} :
    /\ BudgetUpdateStep(id, userId, categoryId, startAt, endAt)
    /\ UNCHANGED <<breq, bcall, notBudgetVars>>

\* ------------------------------------------------- BudgetsService.delete
\* What one call of delete does to the store.
BudgetDeleteStep(id, userId) ==
  LET auth == BudgetAuthorise(id, userId, RoleOf(userId)) IN
  /\ budgetResult' = IF auth = "ok" THEN "deleted" ELSE auth
  /\ budgets' = IF auth = "ok" THEN budgets \ {BudgetById(id)} ELSE budgets
  /\ UNCHANGED nextBudgetId

BudgetDelete ==
  \E id \in 1..MaxBudgets, userId \in Users :
    /\ BudgetDeleteStep(id, userId)
    /\ UNCHANGED <<breq, bcall, notBudgetVars>>

\* ------------------------------------------ calls with their request kept
\* The request of the call being answered, its response and the table as the
\* call found it.
BudgetCall(op, id, userId, categoryId, startAt, endAt, outcome, before) ==
  [pc |-> "done", op |-> op, id |-> id, userId |-> userId,
   categoryId |-> categoryId, startAt |-> startAt, endAt |-> endAt,
   outcome |-> outcome, before |-> before]

BudgetIdle == [pc |-> "idle"]

BudgetCreateCall ==
  \E userId \in Users, categoryId \in {Absent, "c1", "cX"},
     startAt \in Instants, endAt \in Instants :
    /\ bcall = BudgetIdle
    /\ BudgetCreateStep(userId, categoryId, startAt, endAt)
    /\ bcall' = BudgetCall("create", 0, userId, categoryId, startAt, endAt,
                           budgetResult', budgets)
    /\ UNCHANGED <<breq, notBudgetVars>>

BudgetUpdateCall ==
  \E id \in 1..MaxBudgets, userId \in Users,
     categoryId \in {Absent, NoCategory, "c1", "cX"},
     startAt \in Instants \cup {NoTime}, endAt \in Instants \cup {NoTime} :
    /\ bcall = BudgetIdle
    /\ BudgetUpdateStep(id, userId, categoryId, startAt, endAt)
    /\ bcall' = BudgetCall("update", id, userId, categoryId, startAt, endAt,
                           budgetResult', budgets)
    /\ UNCHANGED <<breq, notBudgetVars>>

BudgetDeleteCall ==
  \E id \in 1..MaxBudgets, userId \in Users :
    /\ bcall = BudgetIdle
    /\ BudgetDeleteStep(id, userId)
    /\ bcall' = BudgetCall("delete", id, userId, Absent, NoTime, NoTime,
                           budgetResult', budgets)
    /\ UNCHANGED <<breq, notBudgetVars>>

\* The response has been sent.
BudgetReturn ==
  /\ bcall # BudgetIdle
  /\ bcall' = BudgetIdle
  /\ UNCHANGED <<budgets, nextBudgetId, budgetResult, breq, notBudgetVars>>

BudgetInit ==
  /\ budgets = {}
  /\ nextBudgetId = 1
  /\ budgetResult = "none"
  /\ breq = [r \in 1..2 |-> [pc |-> "idle"]]
  /\ bcall = BudgetIdle

NextBudgetCreate == BudgetCreateCall \/ BudgetDeleteCall \/ BudgetReturn

NextBudgetCalls ==
  BudgetCreateCall \/ BudgetUpdateCall \/ BudgetDeleteCall \/ BudgetReturn

NextBudgetSeq == BudgetCreate \/ BudgetUpdate \/ BudgetDelete

\* ------------------------- BudgetsService.create as two store round trips
\* A request first runs the validation and the overlap query (the reads),
\* and inserts in a later step: nothing in create ties the two together.
IdleRequest == [pc |-> "idle"]

CreateRequest(pc, userId, categoryId, startAt, endAt, result) ==
  [pc |-> pc, userId |-> userId, categoryId |-> categoryId,
   startAt |-> startAt, endAt |-> endAt, result |-> result]

\* create up to the end of `await this.checkOverlap(...)`
CreateCheck(r) ==
  \E userId \in Users, categoryId \in {Absent, "c1", "cX"},
     startAt \in Instants, endAt \in Instants :
    /\ breq[r].pc = "idle"
    /\ nextBudgetId <= MaxBudgets
    /\ LET out == CreateOutcome(budgets, userId, categoryId, startAt, endAt) IN
       breq' = [breq EXCEPT ![r] =
         CreateRequest(IF out = "created" THEN "checked" ELSE "done",
                       userId, categoryId, startAt, endAt,
                       IF out = "created" THEN "pending" ELSE out)]
    /\ UNCHANGED <<budgets, nextBudgetId, budgetResult, bcall, notBudgetVars>>

\* `await this.db.budget.create(...)` and the return
CreateInsert(r) ==
  /\ breq[r].pc = "checked"
  /\ budgets' = budgets \cup
       {BudgetRow(nextBudgetId, breq[r].userId, OrNull(breq[r].categoryId),
                  breq[r].startAt, breq[r].endAt)}
  /\ nextBudgetId' = nextBudgetId + 1
  /\ breq' = [breq EXCEPT ![r].pc = "done", ![r].result = "created"]
  /\ UNCHANGED <<budgetResult, bcall, notBudgetVars>>

\* The response has been sent; the slot takes the next request.
CreateReturn(r) ==
  /\ breq[r].pc = "done"
  /\ breq' = [breq EXCEPT ![r] = IdleRequest]
  /\ UNCHANGED <<budgets, nextBudgetId, budgetResult, bcall, notBudgetVars>>

NextBudgetConc ==
  \E r \in 1..2 : CreateCheck(r) \/ CreateInsert(r) \/ CreateReturn(r)

\* ================================================================= goals
\* Amounts are held in thousandths of a currency unit, so that toFixed(2)
\* is a rounding and not the identity; the DTOs admit only whole cents.
Cent == 10

\* +x.toFixed(2): x rounded to whole cents, halves away from zero.
ToFixed2(x) ==
  IF x >= 0 THEN ((x + 5) \div Cent) * Cent
  ELSE 0 - (((0 - x) + 5) \div Cent) * Cent

\* @IsNumber({maxDecimalPlaces: 2}) @Min(0.01) on AllocateGoalDto.amount,
\* WithdrawGoalDto.amount and CreateGoalDto.targetAmount.
ValidAmounts == {c * Cent : c \in 1..MaxAmount}

GoalRow(id, userId, targetAmount, currentAmount) ==
  [id |-> id, userId |-> userId, targetAmount |-> targetAmount,
   currentAmount |-> currentAmount]

GoalById(id) == CHOOSE g \in goals : g.id = id

GoalExists(id) == \E g \in goals : g.id = id

\* GoalsService.findAndAuthorise: "not_found", "forbidden" or "ok"
GoalAuthorise(id, userId, userRole) ==
  IF ~GoalExists(id) THEN "not_found"
  ELSE IF userRole # "ADMIN" /\ GoalById(id).userId # userId THEN "forbidden"
  ELSE "ok"

\* db.goal.update({where: {id}, data: {currentAmount}}) on the table as it is
\* at the time of the write.
WriteCurrentAmount(id, newAmount) ==
  {IF g.id = id THEN [g EXCEPT !.currentAmount = newAmount] ELSE g : g \in goals}

\* allocate: newAmount = +Number(Number(goal.currentAmount) + dto.amount).toFixed(2)
MutAllocateNewAmountDropsAmount(currentAmount, amount) == ToFixed2(currentAmount)

AllocateNewAmount(currentAmount, amount) == ToFixed2(currentAmount + amount)

\* withdraw: current = +Number(goal.currentAmount).toFixed(2);
\*           if (dto.amount > current) throw BadRequestException
MutWithdrawRejectsNever(currentAmount, amount) == FALSE

MutWithdrawRejectsOffByCent(currentAmount, amount) ==
  amount > ToFixed2(currentAmount) + Cent

WithdrawRejects(currentAmount, amount) == amount > ToFixed2(currentAmount)

\* withdraw: newAmount = +(current - dto.amount).toFixed(2)
WithdrawNewAmount(currentAmount, amount) ==
  ToFixed2(ToFixed2(currentAmount) - amount)

\* The record of a finished call: what it read, what it answered, and the
\* balance the error message states ("the goal only has KES <current> saved").
\* `base` is kept for a withdraw only: when the call directly before it was
\* an accepted allocate of the same amount to the same goal, the balance that
\* allocate started from; NoBase otherwise.
NoBase == 0 - 1

GoalEvent(op, id, amount, read, result, stated) ==
  [op |-> op, id |-> id, amount |-> amount, read |-> read,
   result |-> result, stated |-> stated, base |-> NoBase]

RoundTripBase(id, amount) ==
  IF glast.op = "allocate" /\ glast.result = "ok" /\ glast.id = id /\ glast.amount = amount
  THEN glast.read ELSE NoBase

\* --------------------------------------------------- GoalsService.create
\* data.currentAmount of create: 0, whatever the body carries
MutCreateCurrentAmountOfBody(bodyAmount) == bodyAmount

CreateCurrentAmount(bodyAmount) == 0

\* `logged` is TRUE in the runs that keep the record of the last call.
\* bodyAmount is a currentAmount sent along in the body (0: none sent).
GoalCreateCall(logged) ==
  \E userId \in Users, targetAmount \in ValidAmounts,
     bodyAmount \in ValidAmounts \cup {0} :
    /\ nextGoalId <= MaxGoals
    /\ goals' = goals \cup {GoalRow(nextGoalId, userId, targetAmount,
                                      CreateCurrentAmount(bodyAmount))}
    /\ nextGoalId' = nextGoalId + 1
    /\ glast' = IF logged THEN GoalEvent("create", nextGoalId, targetAmount, 0, "ok", 0)
                ELSE glast
    /\ UNCHANGED <<greq, notGoalVars>>

GoalCreate == GoalCreateCall(TRUE)

\* --------------------------------------------------- GoalsService.update
\* data carries only the fields of the body: name, description, targetAmount
\* and deadline; of these the table of this model holds targetAmount
\* (targetAmount 0 stands for a body without it).
GoalUpdateCall(logged) ==
  \E id \in 1..MaxGoals, userId \in Users, targetAmount \in ValidAmounts \cup {0} :
    LET auth == GoalAuthorise(id, userId, RoleOf(userId)) IN
    /\ goals' = IF auth = "ok" /\ targetAmount # 0
                THEN {IF g.id = id THEN [g EXCEPT !.targetAmount = targetAmount]
                      ELSE g : g \in goals}
                ELSE goals
    /\ glast' = IF logged THEN GoalEvent("update", id, targetAmount, 0, auth, 0)
                ELSE glast
    /\ UNCHANGED <<nextGoalId, greq, notGoalVars>>

GoalUpdate == GoalUpdateCall(TRUE)

\* --------------------------------------------------- GoalsService.delete
GoalDeleteCall(logged) ==
  \E id \in 1..MaxGoals, userId \in Users :
    LET auth == GoalAuthorise(id, userId, RoleOf(userId)) IN
    /\ goals' = IF auth = "ok" THEN goals \ {GoalById(id)} ELSE goals
    /\ glast' = IF logged THEN GoalEvent("delete", id, 0, 0, auth, 0) ELSE glast
    /\ UNCHANGED <<nextGoalId, greq, notGoalVars>>

GoalDelete == GoalDeleteCall(TRUE)

\* ------------------------------------- GoalsService.allocate, as one step
GoalAllocate ==
  \E id \in 1..MaxGoals, userId \in Users, amount \in ValidAmounts :
    LET auth == GoalAuthorise(id, userId, RoleOf(userId)) IN
    /\ auth = "ok" => GoalById(id).currentAmount + amount <= MaxBalance * Cent
    /\ IF auth = "ok"
       THEN LET goal == GoalById(id) IN
            /\ goals' = WriteCurrentAmount(id, AllocateNewAmount(goal.currentAmount, amount))
            /\ glast' = GoalEvent("allocate", id, amount, goal.currentAmount, "ok", 0)
       ELSE /\ goals' = goals
            /\ glast' = GoalEvent("allocate", id, amount, 0, auth, 0)
    /\ UNCHANGED <<nextGoalId, greq, notGoalVars>>

\* ------------------------------------- GoalsService.withdraw, as one step
GoalWithdraw ==
  \E id \in 1..MaxGoals, userId \in Users, amount \in ValidAmounts :
    LET auth == GoalAuthorise(id, userId, RoleOf(userId))
        Event(read, result, stated) ==
          [GoalEvent("withdraw", id, amount, read, result, stated)
             EXCEPT !.base = RoundTripBase(id, amount)]
    IN
    /\ IF auth = "ok"
       THEN LET goal == GoalById(id) IN
            IF WithdrawRejects(goal.currentAmount, amount)
            THEN /\ goals' = goals
                 /\ glast' = Event(goal.currentAmount, "bad_request",
                                   ToFixed2(goal.currentAmount))
            ELSE /\ goals' = WriteCurrentAmount(id, WithdrawNewAmount(goal.currentAmount, amount))
                 /\ glast' = Event(goal.currentAmount, "ok", 0)
       ELSE /\ goals' = goals
            /\ glast' = Event(0, auth, 0)
    /\ UNCHANGED <<nextGoalId, greq, notGoalVars>>

GoalInit ==
  /\ goals = {}
  /\ nextGoalId = 1
  /\ glast = GoalEvent("none", 0, 0, 0, "none", 0)
  /\ greq = [r \in 1..2 |-> [pc |-> "idle"]]

NextGoalSeq == GoalCreate \/ GoalUpdate \/ GoalDelete \/ GoalAllocate \/ GoalWithdraw

\* ------------------- allocate / withdraw as two store round trips
\* `await this.findAndAuthorise(...)` is one query and `await
\* this.db.goal.update(...)` a later one; the code between them is
\* synchronous and works on the row as it was read.  A call that is rejected
\* before its write (not found, forbidden, over the balance) returns at once
\* and leaves the store as it is.
GoalRequest(pc, op, id, amount, read) ==
  [pc |-> pc, op |-> op, id |-> id, amount |-> amount, read |-> read]

\* allocate up to the computation of newAmount
AllocateRead(r) ==
  \E id \in 1..MaxGoals, userId \in Users, amount \in ValidAmounts :
    /\ greq[r].pc = "idle"
    /\ GoalAuthorise(id, userId, RoleOf(userId)) = "ok"
    /\ GoalById(id).currentAmount + amount <= MaxBalance * Cent
    /\ greq' = [greq EXCEPT ![r] =
         GoalRequest("loaded", "allocate", id, amount, GoalById(id).currentAmount)]
    /\ UNCHANGED <<goals, nextGoalId, glast, notGoalVars>>

\* withdraw up to the balance check and the computation of newAmount
WithdrawRead(r) ==
  \E id \in 1..MaxGoals, userId \in Users, amount \in ValidAmounts :
    /\ greq[r].pc = "idle"
    /\ GoalAuthorise(id, userId, RoleOf(userId)) = "ok"
    /\ ~WithdrawRejects(GoalById(id).currentAmount, amount)
    /\ greq' = [greq EXCEPT ![r] =
         GoalRequest("loaded", "withdraw", id, amount, GoalById(id).currentAmount)]
    /\ UNCHANGED <<goals, nextGoalId, glast, notGoalVars>>

\* `await this.db.goal.update(...)` and the return.  The row may have been
\* deleted since the read (Prisma P2025, which handlePrismaError turns into
\* not-found): then nothing is written.  Either way the call is over and the
\* slot takes the next request.
GoalWrite(r) ==
  /\ greq[r].pc = "loaded"
  /\ LET q == greq[r]
         newAmount == IF q.op = "allocate"
                      THEN AllocateNewAmount(q.read, q.amount)
                      ELSE WithdrawNewAmount(q.read, q.amount)
     IN
     goals' = IF GoalExists(q.id) THEN WriteCurrentAmount(q.id, newAmount) ELSE goals
  /\ greq' = [greq EXCEPT ![r] = [pc |-> "idle"]]
  /\ UNCHANGED <<nextGoalId, glast, notGoalVars>>

NextGoalConc ==
  \/ GoalCreateCall(FALSE)
  \/ GoalUpdateCall(FALSE)
  \/ GoalDeleteCall(FALSE)
  \/ \E r \in 1..2 : AllocateRead(r) \/ WithdrawRead(r) \/ GoalWrite(r)

\* ===================================================== classifier client
\* Time is counted in seconds.
DefaultTimeout == 3      \* ML_TIMEOUT_MS ?? '3000'
PingTimeout    == 2      \* setTimeout(() => controller.abort(), 2000)

\* description values: left out, whitespace only, a real text
Descriptions == {Absent, "  ", "lunch"}

\* description?.trim()
Trim(str) == IF str = "  " THEN "" ELSE str

\* !description?.trim()
Blank(description) == description = Absent \/ Trim(description) = ""

\* What the service may send as a response body.  "garbage" is not JSON at
\* all; "null" is the JSON value null; the others are JSON objects.
Bodies == {"prediction", "prediction_unknown_slug", "slug_only", "empty_object",
           "health_ok", "health_down", "null", "garbage"}

\* response.json() resolves
BodyParses(body) == body # "garbage"

\* data.category_slug, data.confidence and data.status of a parsed object
BodySlug(body) ==
  CASE body \in {"prediction", "slug_only"} -> "food"
    [] body = "prediction_unknown_slug" -> "zzz"
    [] OTHER -> "undefined"

BodyConfidence(body) ==
  IF body \in {"prediction", "prediction_unknown_slug"} THEN "0.9" ELSE "undefined"

BodyStatus(body) ==
  CASE body = "health_ok" -> "ok"
    [] body = "health_down" -> "error"
    [] OTHER -> "undefined"

\* The values a call can come to.
NullResult == [kind |-> "null"]

Thrown == [kind |-> "thrown"]

Prediction(slug, confidence) ==
  [kind |-> "prediction", suggestedCategorySlug |-> slug, confidence |-> confidence]

Health(available) == [kind |-> "health", available |-> available]

\* categorise, from `await response.json()` to the return statement: the
\* inner try/catch answers null for a body that does not parse; reading a
\* property of null throws a TypeError.
CategoriseFromBody(body) ==
  IF ~BodyParses(body) THEN NullResult
  ELSE IF body = "null" THEN Thrown
  ELSE Prediction(BodySlug(body), BodyConfidence(body))

\* The outer try/catch of categorise: whatever is thrown becomes null.
MutCategoriseCatchRethrows(outcome) == outcome

CategoriseCatch(outcome) == IF outcome = Thrown THEN NullResult ELSE outcome

\* ping, from `await response.json()` to the return statement
PingFromBody(body) ==
  IF ~BodyParses(body) \/ body = "null" THEN Thrown
  ELSE Health(BodyStatus(body) = "ok")

\* The try/catch of ping: whatever is thrown becomes {available: false}.
PingCatch(outcome) == IF outcome = Thrown THEN Health(FALSE) ELSE outcome

\* What either call answers when its fetch or its body read fails.
Degraded(kind) == IF kind = "ping" THEN PingCatch(Thrown) ELSE CategoriseCatch(Thrown)

\* The bound of a call's timer.
MlBound(kind) == IF kind = "ping" THEN PingTimeout ELSE timeoutMs

MlCall(pc, kind, timer, elapsed, ok, body, cause, result) ==
  [pc |-> pc, kind |-> kind, timer |-> timer, elapsed |-> elapsed, ok |-> ok,
   body |-> body, cause |-> cause, result |-> result]

MlIdle == MlCall("idle", "none", "none", 0, "none", "none", "none", NullResult)

\* categorise(description, type): a blank description returns null at once;
\* otherwise fetchWithTimeout arms its timer and starts the fetch.
CategoriseCall ==
  \E description \in Descriptions :
    /\ ml.pc = "idle"
    /\ ml' = IF Blank(description)
             THEN MlCall("done", "categorise", "none", 0, "none", "none", "blank", NullResult)
             ELSE MlCall("fetching", "categorise", "armed", 0, "none", "none", "none", NullResult)
    /\ UNCHANGED <<timeoutMs, notMlVars>>

\* ping(): arms its own 2 s timer and starts the fetch.
PingCall ==
  /\ ml.pc = "idle"
  /\ ml' = MlCall("fetching", "ping", "armed", 0, "none", "none", "none", NullResult)
  /\ UNCHANGED <<timeoutMs, notMlVars>>

\* A second passes while the call is pending.  A timer that is due runs
\* before more time passes.
MlTick ==
  /\ ml.pc \in {"fetching", "body"}
  /\ ml.elapsed < MaxElapsed
  /\ ~(ml.timer = "armed" /\ ml.elapsed >= MlBound(ml.kind))
  /\ ml' = [ml EXCEPT !.elapsed = @ + 1]
  /\ UNCHANGED <<timeoutMs, notMlVars>>

\* The timer runs controller.abort(): the pending fetch rejects with an
\* AbortError, which the call's catch turns into its degraded answer.
MlTimerFire ==
  /\ ml.pc = "fetching"
  /\ ml.timer = "armed"
  /\ ml.elapsed >= MlBound(ml.kind)
  /\ ml' = [ml EXCEPT !.pc = "done", !.timer = "fired", !.cause = "timeout",
                      !.result = Degraded(ml.kind)]
  /\ UNCHANGED <<timeoutMs, notMlVars>>

\* fetch rejects (connection refused, reset, DNS).  fetchWithTimeout clears
\* the timer in its finally block; ping clears it only after a resolved fetch.
MlNetworkError ==
  /\ ml.pc = "fetching"
  /\ ml' = [ml EXCEPT !.pc = "done",
                      !.timer = IF ml.kind = "ping" THEN @ ELSE "cleared",
                      !.cause = "network_error",
                      !.result = Degraded(ml.kind)]
  /\ UNCHANGED <<timeoutMs, notMlVars>>

\* The response headers arrive and fetch resolves: the timer is cleared.  A
\* non-success status ends the call; otherwise the body is awaited.
MlHeaders ==
  \E ok \in {"ok", "error"} :
    /\ ml.pc = "fetching"
    /\ ml' = IF ok = "ok"
             THEN [ml EXCEPT !.pc = "body", !.timer = "cleared", !.ok = ok]
             ELSE [ml EXCEPT !.pc = "done", !.timer = "cleared", !.ok = ok,
                             !.cause = "http_error",
                             !.result = IF ml.kind = "ping" THEN Health(FALSE)
                                        ELSE NullResult]
    /\ UNCHANGED <<timeoutMs, notMlVars>>

\* The body has arrived in full and response.json() settles.
MlBody ==
  \E body \in Bodies :
    /\ ml.pc = "body"
    /\ ml' = [ml EXCEPT !.pc = "done", !.body = body, !.cause = "body",
                        !.result = IF ml.kind = "ping"
                                   THEN PingCatch(PingFromBody(body))
                                   ELSE CategoriseCatch(CategoriseFromBody(body))]
    /\ UNCHANGED <<timeoutMs, notMlVars>>

\* The connection breaks while the body is read: response.json() rejects.
MlBodyError ==
  /\ ml.pc = "body"
  /\ ml' = [ml EXCEPT !.pc = "done", !.cause = "body_error",
                      !.result = Degraded(ml.kind)]
  /\ UNCHANGED <<timeoutMs, notMlVars>>

\* The caller has its answer.
MlReturn ==
  /\ ml.pc = "done"
  /\ ml' = MlIdle
  /\ UNCHANGED <<timeoutMs, notMlVars>>

MlInit ==
  /\ timeoutMs = DefaultTimeout
  /\ ml = MlIdle

\* ML_TIMEOUT_MS set to one second, or left unset.
MlInitConfigured ==
  /\ timeoutMs \in {1, DefaultTimeout}
  /\ ml = MlIdle

NextMl ==
  \/ CategoriseCall
  \/ PingCall
  \/ MlTick
  \/ MlTimerFire
  \/ MlNetworkError
  \/ MlHeaders
  \/ MlBody
  \/ MlBodyError
  \/ MlReturn

\* ================================================ transactions: create
\* How a classifier call can end: the failures of the outbound call, or a
\* success response with one of the bodies.
Replies == {"network_error", "timeout", "http_error", "body_error"} \cup Bodies

\* MlService.categorise as its caller sees it.
Categorise(description, reply) ==
  IF Blank(description) THEN NullResult
  ELSE IF reply \in Bodies THEN CategoriseCatch(CategoriseFromBody(reply))
  ELSE IF reply = "http_error" THEN NullResult
  ELSE CategoriseCatch(Thrown)

\* The slug column of the category table.
SlugOf(categoryId) == "food"

\* categoryIdFromSlug: findUnique({ where: { slug } }) and `cat?.id ?? null`.
\* An undefined slug leaves findUnique without a unique field: the client
\* raises a validation error, which handlePrismaError turns into an
\* InternalServerErrorException.
MutCategoryIdFromSlugDefaults(slug) == "c1"

CategoryIdFromSlug(slug) ==
  IF slug = "undefined" THEN "thrown"
  ELSE IF \E c \in Categories : SlugOf(c) = slug
       THEN CHOOSE c \in Categories : SlugOf(c) = slug
       ELSE NoCategory

\* dto.type === "income" && dto.incomeSource ? dto.incomeSource.trim() : null
IncomeSource(type, incomeSource) ==
  IF type = "income" /\ incomeSource \notin {Absent, ""}
  THEN (IF incomeSource = " salary " THEN "salary" ELSE Trim(incomeSource))
  ELSE "null"

TxRow(id, userId, type, description, categoryId, incomeSource) ==
  [id |-> id, userId |-> userId, type |-> type,
   description |-> IF description = Absent THEN "null" ELSE description,
   categoryId |-> OrNull(categoryId), incomeSource |-> incomeSource,
   suggestedCategoryId |-> NoCategory, categoryConfidence |-> "null"]

NoRow == [id |-> 0]

TxCall(pc, id, description, valid, before, consulted, prediction, result, returned) ==
  [pc |-> pc, id |-> id, description |-> description, valid |-> valid,
   before |-> before, consulted |-> consulted, prediction |-> prediction,
   result |-> result, returned |-> returned]

TxIdle == TxCall("idle", 0, Absent, FALSE, 0, FALSE, NullResult, "none", NoRow)

\* create, up to the call of ml.categorise: validateCategory answers 404 for a
\* category id that is not in the table; otherwise the row is inserted, and a
\* request with a blank description returns it at once.
TxCreateBegin ==
  \E userId \in Users, categoryId \in {Absent, "c1", "cX"},
     type \in {"income", "expense"},
     description \in Descriptions, incomeSource \in {Absent, " salary "} :
    /\ tx.pc = "idle"
    /\ nextTxId <= MaxTx
    /\ IF Truthy(categoryId) /\ categoryId \notin Categories
       THEN /\ tx' = TxCall("done", 0, description, FALSE, Cardinality(ledger), FALSE,
                            NullResult, "not_found", NoRow)
            /\ UNCHANGED <<ledger, nextTxId>>
       ELSE LET row == TxRow(nextTxId, userId, type, description, categoryId,
                             IncomeSource(type, incomeSource))
            IN /\ ledger' = ledger \cup {row}
               /\ nextTxId' = nextTxId + 1
               /\ tx' = IF Blank(description)
                        THEN TxCall("done", row.id, description, TRUE, Cardinality(ledger),
                                    FALSE, NullResult, "ok", row)
                        ELSE TxCall("categorising", row.id, description, TRUE,
                                    Cardinality(ledger), TRUE, NullResult, "none", NoRow)
    /\ UNCHANGED notTxVars

\* create, from the answer of ml.categorise to its return.  With storeUp
\* FALSE the store fails the slug lookup or the suggestion write, which
\* handlePrismaError turns into an InternalServerErrorException.
TxCreateFinish ==
  \E reply \in Replies, storeUp \in BOOLEAN :
    LET prediction == Categorise(tx.description, reply)
        row == CHOOSE r \in ledger : r.id = tx.id
        suggestedCategoryId ==
          IF prediction = NullResult THEN NoCategory
          ELSE IF ~storeUp THEN "thrown"
          ELSE CategoryIdFromSlug(prediction.suggestedCategorySlug)
        enriched == [row EXCEPT !.suggestedCategoryId = suggestedCategoryId,
                                !.categoryConfidence =
                                   IF prediction.confidence = "undefined"
                                   THEN @ ELSE prediction.confidence]
    IN /\ tx.pc = "categorising"
       /\ IF suggestedCategoryId = "thrown"
          THEN /\ tx' = [tx EXCEPT !.pc = "done", !.prediction = prediction,
                                   !.result = "internal_error"]
               /\ UNCHANGED ledger
          ELSE IF suggestedCategoryId = NoCategory
          THEN /\ tx' = [tx EXCEPT !.pc = "done", !.prediction = prediction,
                                   !.result = "ok", !.returned = row]
               /\ UNCHANGED ledger
          ELSE /\ ledger' = (ledger \ {row}) \cup {enriched}
               /\ tx' = [tx EXCEPT !.pc = "done", !.prediction = prediction,
                                   !.result = "ok", !.returned = enriched]
       /\ UNCHANGED <<nextTxId, notTxVars>>

\* The caller has its answer.
TxReturn ==
  /\ tx.pc = "done"
  /\ tx' = TxIdle
  /\ UNCHANGED <<ledger, nextTxId, notTxVars>>

TxInit ==
  /\ ledger = {}
  /\ nextTxId = 1
  /\ tx = TxIdle

NextTx ==
  \/ TxCreateBegin
  \/ TxCreateFinish
  \/ TxReturn

\* ======================================================= goals: progress
\* Time is counted in half days, so that Math.ceil and Math.floor round.
msPerDay == 2

NoDeadline == 0 - 100

\* Math.floor(a / b) and Math.ceil(a / b) for b > 0; Math.ceil gives (minus)
\* zero for every a in (-b, 0].
Floor(a, b) == a \div b

Ceil(a, b) == 0 - ((0 - a) \div b)

\* a / b rounded to the nearest whole number, for a >= 0 and b > 0
DivRound(a, b) == (2 * a + b) \div (2 * b)

Min(a, b) == IF a <= b THEN a ELSE b

Max(a, b) == IF a >= b THEN a ELSE b

\* +Math.min((currentAmount / targetAmount) * 100, 100).toFixed(1), in tenths
\* of a percent
MutPercentageUncapped(currentAmount, targetAmount) ==
  IF targetAmount > 0 THEN DivRound(currentAmount * 1000, targetAmount) ELSE 0

Percentage(currentAmount, targetAmount) ==
  IF targetAmount > 0
  THEN Min(DivRound(currentAmount * 1000, targetAmount), 1000)
  ELSE 0

\* Math.ceil((deadline - Date.now()) / msPerDay), null without a deadline
DaysRemaining(deadline, now) ==
  IF deadline = NoDeadline THEN NoDeadline ELSE Ceil(deadline - now, msPerDay)

\* Math.max(1, Math.floor((Date.now() - createdAt) / msPerDay))
DaysElapsed(createdAt, now) == Max(1, Floor(now - createdAt, msPerDay))

\* dailyRateNeeded: +(remaining / daysRemaining).toFixed(2), null (here 0, as
\* `dailyRateNeeded ?? 0` reads it) unless the deadline is ahead and the goal
\* is not complete
DailyRateNeeded(currentAmount, targetAmount, daysRemaining) ==
  IF daysRemaining # NoDeadline /\ daysRemaining > 0
     /\ Percentage(currentAmount, targetAmount) < 1000
  THEN Cent * DivRound(ToFixed2(targetAmount - currentAmount), daysRemaining * Cent)
  ELSE 0

\* actualDailyRate >= requiredDailyRate || (daysRemaining <= 7 && percentage >= 90)
IsOnTrack(currentAmount, targetAmount, daysRemaining, daysElapsed) ==
  \/ currentAmount >=
       DailyRateNeeded(currentAmount, targetAmount, daysRemaining) * daysElapsed
  \/ (daysRemaining <= 7 /\ Percentage(currentAmount, targetAmount) >= 900)

\* The if / else-if chain that assigns status.
Status(currentAmount, targetAmount, daysRemaining, daysElapsed) ==
  IF Percentage(currentAmount, targetAmount) >= 1000 THEN "completed"
  ELSE IF daysRemaining # NoDeadline /\ daysRemaining < 0 THEN "overdue"
  ELSE IF daysRemaining # NoDeadline /\ daysRemaining > 0
  THEN (IF IsOnTrack(currentAmount, targetAmount, daysRemaining, daysElapsed)
        THEN "on_track" ELSE "at_risk")
  ELSE "in_progress"

EnrichWithProgress(goal, now) ==
  LET currentAmount == ToFixed2(goal.currentAmount)
      targetAmount == ToFixed2(goal.targetAmount)
      daysRemaining == DaysRemaining(goal.deadline, now)
      daysElapsed == DaysElapsed(goal.createdAt, now)
  IN [currentAmount |-> currentAmount,
      targetAmount |-> targetAmount,
      percentage |-> Percentage(currentAmount, targetAmount),
      status |-> Status(currentAmount, targetAmount, daysRemaining, daysElapsed),
      daysRemaining |-> daysRemaining,
      dailyRateNeeded |-> DailyRateNeeded(currentAmount, targetAmount, daysRemaining)]

NoProgress == [status |-> "none"]

\* A goal is read and enrichWithProgress is applied to it.
ProgressEnrich ==
  /\ progress = NoProgress
  /\ progress' = EnrichWithProgress(pgoal, clock)
  /\ UNCHANGED <<pgoal, clock, notProgressVars>>

\* Half a day passes before the goal is read again.
ProgressLater ==
  /\ progress # NoProgress
  /\ clock < MaxClock
  /\ clock' = clock + 1
  /\ progress' = NoProgress
  /\ UNCHANGED <<pgoal, notProgressVars>>

\* Any stored goal: a positive target, a balance of whole cents, a deadline
\* or none, created no later than now; among them a goal of 25.00 with
\* 24.99 saved.
ProgressGoals ==
  [targetAmount : ValidAmounts,
   currentAmount : {c * Cent : c \in 0..MaxBalance},
   deadline : (0..MaxClock) \cup {NoDeadline},
   createdAt : 0..MaxClock]
  \cup
  [targetAmount : {2500 * Cent},
   currentAmount : {2499 * Cent},
   deadline : (0..MaxClock) \cup {NoDeadline},
   createdAt : 0..MaxClock]

ProgressInit ==
  /\ pgoal = [targetAmount |-> Cent, currentAmount |-> 0,
              deadline |-> NoDeadline, createdAt |-> 0]
  /\ clock = 0
  /\ progress = NoProgress

ProgressInitAny ==
  /\ pgoal \in ProgressGoals
  /\ clock \in 0..MaxClock
  /\ pgoal.createdAt <= clock
  /\ progress = NoProgress

NextProgress ==
  \/ ProgressEnrich
  \/ ProgressLater

\* ===================================================== budgets: summary
\* The tables with the columns the summary reads: a budget row carries its
\* limitAmount, a ledger row its owner, type, category, date and amount.
LimitedBudgetRow(id, userId, categoryId, startAt, endAt, limitAmount) ==
  [id |-> id, userId |-> userId, categoryId |-> categoryId,
   startAt |-> startAt, endAt |-> endAt, limitAmount |-> limitAmount]

LedgerRow(userId, type, categoryId, date, amount) ==
  [userId |-> userId, type |-> type, categoryId |-> categoryId,
   date |-> date, amount |-> amount]

\* @Min(0.01) limitAmount, among them 0.05 and 25.00
LimitAmounts == {Cent, 5 * Cent, 2500 * Cent}

\* transaction amounts, among them 24.99
LedgerAmounts == ValidAmounts \cup {2499 * Cent}

\* _sum: { amount: true }
RECURSIVE SumAmount(_)
SumAmount(rows) ==
  IF rows = {} THEN 0
  ELSE LET r == CHOOSE x \in rows : TRUE
       IN r.amount + SumAmount(rows \ {r})

\* The where clause of calcSpending's aggregate.
MutSpendingRowsAnyType(rows, budget) ==
  {t \in rows :
     /\ t.userId = budget.userId
     /\ t.date >= budget.startAt
     /\ t.date <= budget.endAt
     /\ (budget.categoryId # NoCategory => t.categoryId = budget.categoryId)}

SpendingRows(rows, budget) ==
  {t \in rows :
     /\ t.userId = budget.userId
     /\ t.type = "expense"
     /\ t.date >= budget.startAt
     /\ t.date <= budget.endAt
     /\ (budget.categoryId # NoCategory => t.categoryId = budget.categoryId)}

CalcSpending(rows, budget) == ToFixed2(SumAmount(SpendingRows(rows, budget)))

NEAR_LIMIT_THRESHOLD == 80

\* +((totalSpent / limitAmount) * 100).toFixed(1), in tenths of a percent
PercentageUsed(totalSpent, limitAmount) ==
  IF limitAmount > 0 THEN DivRound(totalSpent * 1000, limitAmount) ELSE 0

AlertStatus(percentageUsed) ==
  IF percentageUsed >= 1000 THEN "over"
  ELSE IF percentageUsed >= NEAR_LIMIT_THRESHOLD * 10 THEN "near"
  ELSE "ok"

EnrichWithSummary(rows, budget) ==
  LET totalSpent == CalcSpending(rows, budget)
      limitAmount == ToFixed2(budget.limitAmount)
      percentageUsed == PercentageUsed(totalSpent, limitAmount)
  IN [id |-> budget.id, userId |-> budget.userId,
      categoryId |-> budget.categoryId,
      startAt |-> budget.startAt, endAt |-> budget.endAt,
      limitAmount |-> limitAmount,
      totalSpent |-> totalSpent,
      remaining |-> ToFixed2(limitAmount - totalSpent),
      percentageUsed |-> percentageUsed,
      alertStatus |-> AlertStatus(percentageUsed)]

NoSummary == [op |-> "none"]

\* findById by the owner: the budget with its summary.
SummaryFindById ==
  \E b \in budgets :
    /\ summary = NoSummary
    /\ summary' = [op |-> "findById", budget |-> b,
                   result |-> EnrichWithSummary(ledger, b)]
    /\ UNCHANGED <<budgets, ledger, notSummaryVars>>

\* The transactions recorded while a summary is examined: u1's expenses of
\* any date and amount, and one income or other user's row per category.
SummaryLedgerRows ==
  {LedgerRow("u1", "expense", c, d, a) :
     c \in {NoCategory, "c1"}, d \in Instants, a \in LedgerAmounts}
  \cup {LedgerRow(u, ty, c, 1, Cent) :
          u \in Users, ty \in {"expense", "income"}, c \in {NoCategory, "c1"}}

\* The transactions recorded while alerts are examined: expenses of either
\* user, all dated inside every budget window.
AlertLedgerRows ==
  {LedgerRow(u, "expense", c, 1, a) :
     u \in Users, c \in {NoCategory, "c1"}, a \in LedgerAmounts}

\* A transaction is recorded.
LedgerRecordOf(rows) ==
  \E row \in rows :
    /\ Cardinality(ledger) < MaxLedger
    /\ ledger' = ledger \cup {row}
    /\ summary' = NoSummary
    /\ UNCHANGED <<budgets, notSummaryVars>>

LedgerRecord == LedgerRecordOf(SummaryLedgerRows)

AccessIdle == [pc |-> "idle"]

FeedbackIdle == [pc |-> "idle"]

SummaryInit ==
  /\ summary = NoSummary
  /\ agg = [pc |-> "idle"]
  /\ access = AccessIdle
  /\ feedback = FeedbackIdle

\* One budget of u1: overall or of category c1, any window, any limit.
SummaryStoreInit ==
  /\ \E categoryId \in {NoCategory, "c1"}, startAt \in Instants, endAt \in Instants,
        limitAmount \in LimitAmounts :
       /\ startAt < endAt
       /\ budgets = {LimitedBudgetRow(1, "u1", categoryId, startAt, endAt, limitAmount)}
  /\ nextBudgetId = 2
  /\ budgetResult = "none"
  /\ breq = [r \in 1..2 |-> [pc |-> "idle"]]
  /\ bcall = BudgetIdle

NextSummary == SummaryFindById \/ LedgerRecord

\* ------------------------------------------------------ budgets: alerts
\* The sequences that hold each element of a set once.
SeqsOf(S) ==
  {f \in [1..Cardinality(S) -> S] :
     \A i, j \in 1..Cardinality(S) : i # j => f[i] # f[j]}

\* findAll: every budget for an administrator, the requester's own otherwise
FindAllWhere(userId, userRole) ==
  IF userRole = "ADMIN" THEN budgets ELSE {b \in budgets : b.userId = userId}

\* findMany({ where, orderBy: { startAt: 'desc' } }): the store may return
\* rows of equal startAt in any order.
FindAllOrders(userId, userRole) ==
  {f \in SeqsOf(FindAllWhere(userId, userRole)) :
     \A i, j \in 1..Len(f) : i < j => f[i].startAt >= f[j].startAt}

\* Promise.all(budgets.map(enrichWithSummary))
EnrichAll(rows) == [i \in 1..Len(rows) |-> EnrichWithSummary(ledger, rows[i])]

\* The comparator of getBudgetAlerts' sort, with percentageUsed in tenths.
MutAlertCompareAscending(a, b) ==
  IF a.alertStatus = "over" /\ b.alertStatus # "over" THEN 0 - 1
  ELSE IF b.alertStatus = "over" /\ a.alertStatus # "over" THEN 1
  ELSE a.percentageUsed - b.percentageUsed

AlertCompare(a, b) ==
  IF a.alertStatus = "over" /\ b.alertStatus # "over" THEN 0 - 1
  ELSE IF b.alertStatus = "over" /\ a.alertStatus # "over" THEN 1
  ELSE b.percentageUsed - a.percentageUsed

\* Array.prototype.sort with that comparator: a stable sort, here by
\* insertion of each element before the first one that must follow it.
InsertAlert(sorted, x) ==
  LET later == {i \in 1..Len(sorted) : AlertCompare(sorted[i], x) > 0}
      at == IF later = {} THEN Len(sorted) + 1
            ELSE CHOOSE i \in later : \A j \in later : i <= j
  IN SubSeq(sorted, 1, at - 1) \o <<x>> \o SubSeq(sorted, at, Len(sorted))

RECURSIVE SortAlerts(_)
SortAlerts(list) ==
  IF list = <<>> THEN <<>>
  ELSE InsertAlert(SortAlerts(SubSeq(list, 1, Len(list) - 1)), list[Len(list)])

NotOk(b) == b.alertStatus # "ok"

\* getBudgetAlerts over what findAll returned
BudgetAlertsOf(all) == SortAlerts(SelectSeq(all, NotOk))

\* getBudgetAlerts(userId, userRole)
GetBudgetAlerts ==
  \E userId \in Users :
    \E rows \in FindAllOrders(userId, RoleOf(userId)) :
      /\ summary = NoSummary
      /\ summary' = [op |-> "getBudgetAlerts", userId |-> userId,
                     all |-> EnrichAll(rows),
                     result |-> BudgetAlertsOf(EnrichAll(rows))]
      /\ UNCHANGED <<budgets, ledger, notSummaryVars>>

\* The (owner, category) pairs a budget can be stored for over one window.
AlertSlots == Users \X {NoCategory, "c1"}

\* The store numbers its rows; here in a fixed order of the slots.
SeqOfSlots(slots) == CHOOSE f \in SeqsOf(slots) : TRUE

\* Up to MaxBudgets budgets over the window [0, MaxTime], no two of one owner
\* and category, each with any limit.
AlertStores ==
  UNION {
    { {LimitedBudgetRow(CHOOSE k \in 1..Cardinality(slots) :
                          SeqOfSlots(slots)[k] = sl,
                        sl[1], sl[2], 0, MaxTime, limit[sl]) : sl \in slots}
      : limit \in [slots -> LimitAmounts] }
    : slots \in {S \in SUBSET AlertSlots : Cardinality(S) <= MaxBudgets} }

AlertStoreInit ==
  /\ budgets \in AlertStores
  /\ nextBudgetId = Cardinality(budgets) + 1
  /\ budgetResult = "none"
  /\ breq = [r \in 1..2 |-> [pc |-> "idle"]]
  /\ bcall = BudgetIdle

AlertLedgerRecord == LedgerRecordOf(AlertLedgerRows)

NextAlerts == GetBudgetAlerts \/ AlertLedgerRecord

\* ------------------------------------------- budgets: under-budget nudge
\* A heuristic that has nothing to say answers null.
NullNudge == [id |-> "null"]

UNDER_BUDGET_THRESHOLD == 85

\* UNDER_BUDGET_MIN_PERIOD_ELAPSED = 0.25, in hundredths
UNDER_BUDGET_MIN_PERIOD_ELAPSED == 25

\* The filter of getUnderBudgetNudge on an enriched budget; elapsed and
\* totalDays are both in half-days, which leaves their quotient as it is.
IsUnderBudget(b, now) ==
  IF b.alertStatus # "ok" \/ b.percentageUsed >= UNDER_BUDGET_THRESHOLD * 10
  THEN FALSE
  ELSE LET elapsed == now - b.startAt
           totalDays == b.endAt - b.startAt
       IN IF totalDays > 0
          THEN elapsed * 100 >= UNDER_BUDGET_MIN_PERIOD_ELAPSED * totalDays
          ELSE 0 >= UNDER_BUDGET_MIN_PERIOD_ELAPSED

\* category?.name ?? 'overall spending'
BudgetLabel(b) == IF b.categoryId = NoCategory THEN "overall spending" ELSE b.categoryId

\* +(100 - percentageUsed).toFixed(0), percentageUsed in tenths of a percent
PctUnder(percentageUsed) == DivRound(1000 - percentageUsed, 10)

SingleMessage(label, pctUnder) ==
  [kind |-> "single", label |-> label, pctUnder |-> pctUnder]

CountMessage(n) == [kind |-> "count", n |-> n]

\* getUnderBudgetNudge of userId at the instant now.
UnderBudgetNudge(userId, now) ==
  LET found == {b \in budgets : b.userId = userId /\ b.endAt >= now}
      enriched == {EnrichWithSummary(ledger, b) : b \in found}
      underBudgets == {b \in enriched : IsUnderBudget(b, now)}
  IN IF found = {} THEN NullNudge
     ELSE IF underBudgets = {} THEN NullNudge
     ELSE [id |-> "under_budget", type |-> "under_budget",
           message |->
             IF Cardinality(underBudgets) = 1
             THEN LET b == CHOOSE x \in underBudgets : TRUE
                  IN SingleMessage(BudgetLabel(b), PctUnder(b.percentageUsed))
             ELSE CountMessage(Cardinality(underBudgets))]

GetUnderBudgetNudge ==
  \E userId \in Users :
    /\ summary = NoSummary
    /\ summary' = [op |-> "underBudget", userId |-> userId, now |-> clock,
                   result |-> UnderBudgetNudge(userId, clock)]
    /\ UNCHANGED <<budgets, ledger, notSummaryVars>>

\* Half a day passes.
NudgeLater ==
  /\ clock < MaxClock
  /\ clock' = clock + 1
  /\ summary' = NoSummary
  /\ UNCHANGED <<budgetVars, goalVars, mlVars, txVars, pgoal, progress, agg,
                 accessVars, feedbackVars>>

\* The windows of the budgets under examination: four half-days from 0, the
\* same from 1, and a single half-day.
NudgeWindows == {<<0, 4>>, <<1, 5>>, <<0, 1>>}

\* Up to MaxBudgets budgets, no two of one owner and category, each with one
\* of the windows and a limit of 0.01 or 0.05.
UnderBudgetStores ==
  UNION {
    { {LimitedBudgetRow(CHOOSE k \in 1..Cardinality(slots) :
                          SeqOfSlots(slots)[k] = sl,
                        sl[1], sl[2], win[sl][1], win[sl][2], limit[sl]) : sl \in slots}
      : limit \in [slots -> {Cent, 5 * Cent}], win \in [slots -> NudgeWindows] }
    : slots \in {S \in SUBSET AlertSlots : Cardinality(S) <= MaxBudgets} }

UnderBudgetStoreInit ==
  /\ budgets \in UnderBudgetStores
  /\ nextBudgetId = Cardinality(budgets) + 1
  /\ budgetResult = "none"
  /\ breq = [r \in 1..2 |-> [pc |-> "idle"]]
  /\ bcall = BudgetIdle

NextUnderBudget == GetUnderBudgetNudge \/ AlertLedgerRecord \/ NudgeLater

\* ---------------------------------------------------- budgets: getAlerts
\* A task of the Promise.all: pending, fulfilled with a value, or rejected.
Pending == [st |-> "pending"]

Fulfilled(value) == [st |-> "ok", value |-> value]

Rejected == [st |-> "failed"]

NoNudge == "null"

\* The goal nudges the controller hands in.
GoalNudgeLists == {<<>>, <<"goal_early_1">>, <<"goal_early_1", "goal_early_2">>}

\* nudges: the weekend nudge if any, the under-budget nudge if any, then
\* ...goalNudges
MergeNudges(weekendNudge, underBudgetNudge, goalNudges) ==
  (IF weekendNudge # NoNudge THEN <<weekendNudge>> ELSE <<>>)
  \o (IF underBudgetNudge # NoNudge THEN <<underBudgetNudge>> ELSE <<>>)
  \o goalNudges

ValueOr(task, default) == IF task.st = "ok" THEN task.value ELSE default

\* What `await Promise.all([...])` and the lines after it come to, once the
\* promise has settled: a rejection of any task rejects the whole call.
MutGetAlertsOutcomeSettled(tasks, goalNudges) ==
  [kind |-> "ok",
   budgetAlerts |-> ValueOr(tasks.alerts, <<>>),
   nudges |-> MergeNudges(ValueOr(tasks.weekend, NoNudge),
                          ValueOr(tasks.under, NoNudge), goalNudges)]

GetAlertsOutcome(tasks, goalNudges) ==
  IF \E k \in DOMAIN tasks : tasks[k].st = "failed"
  THEN [kind |-> "failed"]
  ELSE [kind |-> "ok",
        budgetAlerts |-> tasks.alerts.value,
        nudges |-> MergeNudges(tasks.weekend.value, tasks.under.value, goalNudges)]

AggIdle == [pc |-> "idle"]

\* getAlerts(userId, userRole, goalNudges): the three checks are started.
GetAlertsCall ==
  \E userId \in Users, goalNudges \in GoalNudgeLists :
    /\ agg = AggIdle
    /\ agg' = [pc |-> "running", userId |-> userId, goalNudges |-> goalNudges,
               tasks |-> [alerts |-> Pending, weekend |-> Pending, under |-> Pending],
               result |-> [kind |-> "none"]]
    /\ UNCHANGED notAggVars

\* getBudgetAlerts fulfils with the sorted alerts.
AlertsTaskFulfil ==
  /\ agg.pc = "running"
  /\ agg.tasks.alerts = Pending
  /\ \E rows \in FindAllOrders(agg.userId, RoleOf(agg.userId)) :
       agg' = [agg EXCEPT !.tasks.alerts = Fulfilled(BudgetAlertsOf(EnrichAll(rows)))]
  /\ UNCHANGED notAggVars

\* getWeekendOverspendNudge / getUnderBudgetNudge fulfils with its nudge or
\* with null.
NudgeTaskFulfil ==
  \E k \in {"weekend", "under"} :
    \E value \in {NoNudge, IF k = "weekend" THEN "weekend_overspend" ELSE "under_budget"} :
      /\ agg.pc = "running"
      /\ agg.tasks[k] = Pending
      /\ agg' = [agg EXCEPT !.tasks[k] = Fulfilled(value)]
      /\ UNCHANGED notAggVars

\* A store failure in one of the checks: its catch block rethrows.
TaskReject ==
  \E k \in {"alerts", "weekend", "under"} :
    /\ agg.pc = "running"
    /\ agg.tasks[k] = Pending
    /\ agg' = [agg EXCEPT !.tasks[k] = Rejected]
    /\ UNCHANGED notAggVars

\* Promise.all settles: with the first rejection, or when all three have
\* fulfilled.
GetAlertsSettle ==
  /\ agg.pc = "running"
  /\ \/ \E k \in DOMAIN agg.tasks : agg.tasks[k].st = "failed"
     \/ \A k \in DOMAIN agg.tasks : agg.tasks[k].st = "ok"
  /\ agg' = [agg EXCEPT !.pc = "done",
                        !.result = GetAlertsOutcome(agg.tasks, agg.goalNudges)]
  /\ UNCHANGED notAggVars

\* The controller has answered.
GetAlertsReturn ==
  /\ agg.pc = "done"
  /\ agg' = AggIdle
  /\ UNCHANGED notAggVars

AggInit == agg = AggIdle

\* One overall budget of u1 and one expense of 0.01 inside its window.
AggStoreInit ==
  /\ \E limitAmount \in LimitAmounts :
       budgets = {LimitedBudgetRow(1, "u1", NoCategory, 0, MaxTime, limitAmount)}
  /\ nextBudgetId = 2
  /\ budgetResult = "none"
  /\ breq = [r \in 1..2 |-> [pc |-> "idle"]]
  /\ bcall = BudgetIdle
  /\ ledger = {LedgerRow("u1", "expense", NoCategory, 1, Cent)}
  /\ nextTxId = 1
  /\ tx = TxIdle

NextGetAlerts ==
  \/ GetAlertsCall
  \/ AlertsTaskFulfil
  \/ NudgeTaskFulfil
  \/ TaskReject
  \/ GetAlertsSettle
  \/ GetAlertsReturn

\* ================================================= by-id and list calls
\* The call being answered: whose it is, what it asked for, what it was
\* answered, and the table of its entity as the call found it.
AccessCall(entity, op, id, userId, body, outcome, before, result) ==
  [pc |-> "done", entity |-> entity, op |-> op, id |-> id, userId |-> userId,
   body |-> body, outcome |-> outcome, before |-> before, result |-> result]

\* The fields of an UpdateTransactionDto the record of a call keeps.
TxBody(type, incomeSource) == [type |-> type, incomeSource |-> incomeSource]

NoBody == TxBody(Absent, Absent)

\* The response has been sent.
AccessReturn ==
  /\ access # AccessIdle
  /\ access' = AccessIdle
  /\ UNCHANGED <<budgetVars, goalVars, mlVars, txVars, progressVars, summaryVars,
                 feedbackVars>>

\* ---------------------------------------------- TransactionsService by id
TxById(id) == CHOOSE t \in ledger : t.id = id

TxExists(id) == \E t \in ledger : t.id = id

\* TransactionsService.findById: "not_found", "forbidden" or "ok"
MutTxAuthoriseAnyUser(id, userId, userRole) ==
  IF ~TxExists(id) THEN "not_found" ELSE "ok"

TxAuthorise(id, userId, userRole) ==
  IF ~TxExists(id) THEN "not_found"
  ELSE IF userRole # "ADMIN" /\ TxById(id).userId # userId THEN "forbidden"
  ELSE "ok"

\* validateCategory: 404 for an id that is not in the category table
ValidateCategory(categoryId) ==
  IF categoryId \in Categories THEN "ok" ELSE "not_found"

\* buildWhere without filters: `if (!isAdmin) where.userId = userId`
BuildWhere(userId, isAdmin) ==
  IF isAdmin THEN ledger ELSE {t \in ledger : t.userId = userId}

\* What one TransactionsService call leaves alone besides the ledger.
notLedgerVars == <<budgetVars, goalVars, mlVars, nextTxId, tx, progressVars,
                   summaryVars,
    feedbackVars>>

\* findAll: the rows of the where clause (a first page that holds them all)
TxFindAll ==
  \E userId \in Users :
    /\ access = AccessIdle
    /\ tx.pc = "idle"
    /\ access' = AccessCall("transaction", "findAll", 0, userId, NoBody, "ok",
                            ledger, BuildWhere(userId, RoleOf(userId) = "ADMIN"))
    /\ UNCHANGED <<ledger, notLedgerVars>>

TxFindById ==
  \E id \in 1..MaxTx, userId \in Users :
    LET auth == TxAuthorise(id, userId, RoleOf(userId)) IN
    /\ access = AccessIdle
    /\ tx.pc = "idle"
    /\ access' = AccessCall("transaction", "findById", id, userId, NoBody, auth,
                            ledger, IF auth = "ok" THEN TxById(id) ELSE NoRow)
    /\ UNCHANGED <<ledger, notLedgerVars>>

\* update: the incomeSource written, from effectiveType = dto.type ??
\* existing.type.  The value "unwritten" stands for data without the field.
MutUpdateIncomeSourceOfBodyType(existing, type, incomeSource) ==
  IF type = "expense" THEN "null"
  ELSE IF incomeSource # Absent
       THEN (IF incomeSource = "" THEN "null"
             ELSE IF incomeSource = " salary " THEN "salary"
             ELSE Trim(incomeSource))
       ELSE "unwritten"

UpdateIncomeSource(existing, type, incomeSource) ==
  LET effectiveType == IF type # Absent THEN type ELSE existing.type IN
  IF effectiveType = "expense" THEN "null"
  ELSE IF incomeSource # Absent
       THEN (IF incomeSource = "" THEN "null"
             ELSE IF incomeSource = " salary " THEN "salary"
             ELSE Trim(incomeSource))
       ELSE "unwritten"

\* db.transaction.update({ where: { id }, data }) with the data update builds
\* from the body's type, categoryId and incomeSource (amount, description and
\* date are copied the same way when given; the bodies here leave them out).
UpdatedRow(existing, type, categoryId, incomeSource) ==
  LET written == UpdateIncomeSource(existing, type, incomeSource) IN
  [existing EXCEPT
     !.type = IF type # Absent THEN type ELSE @,
     !.categoryId = IF categoryId # Absent THEN categoryId ELSE @,
     !.incomeSource = IF written # "unwritten" THEN written ELSE @]

TxUpdate ==
  \E id \in 1..MaxTx, userId \in Users, type \in {Absent, "income", "expense"},
     categoryId \in {Absent, NoCategory, "c1", "cX"},
     incomeSource \in {Absent, "", " salary "} :
    LET body == TxBody(type, incomeSource)
        auth == TxAuthorise(id, userId, RoleOf(userId))
        outcome == IF auth # "ok" THEN auth
                   ELSE IF Truthy(categoryId) THEN ValidateCategory(categoryId)
                   ELSE "ok"
    IN /\ access = AccessIdle
       /\ tx.pc = "idle"
       /\ IF outcome = "ok"
          THEN LET existing == TxById(id)
                   updated == UpdatedRow(existing, type, categoryId, incomeSource)
               IN /\ ledger' = (ledger \ {existing}) \cup {updated}
                  /\ access' = AccessCall("transaction", "update", id, userId, body,
                                          "ok", ledger, updated)
          ELSE /\ ledger' = ledger
               /\ access' = AccessCall("transaction", "update", id, userId, body,
                                       outcome, ledger, NoRow)
       /\ UNCHANGED notLedgerVars

\* How the POST to /feedback can end: a success status, another status, a
\* failed connection, or the abort of fetchWithTimeout's timer.
FeedbackReplies == {"ok", "http_error", "network_error", "timeout"}

\* MlService.sendFeedback as a promise: a status that is not ok is logged,
\* and whatever fetchWithTimeout throws is caught and logged.
MutSendFeedbackRethrows(reply) ==
  IF reply \in {"ok", "http_error"} THEN "fulfilled" ELSE "rejected"

SendFeedback(reply) ==
  IF reply \in {"ok", "http_error"} THEN "fulfilled" ELSE "fulfilled"

FeedbackCall(pc, description, slug, reply, promise) ==
  [pc |-> pc, description |-> description, slug |-> slug, reply |-> reply,
   promise |-> promise]

\* The request of the latest sendFeedback call ends; a call whose request
\* never ends stays pending.
FeedbackSettle ==
  \E reply \in FeedbackReplies :
    /\ feedback # FeedbackIdle
    /\ feedback.pc = "pending"
    /\ feedback' = [feedback EXCEPT !.pc = "settled", !.reply = reply,
                                    !.promise = SendFeedback(reply)]
    /\ UNCHANGED <<budgetVars, goalVars, mlVars, txVars, progressVars, summaryVars,
                   accessVars>>

\* The body of a correction.
CorrectionBody(categoryId) == [categoryId |-> categoryId]

\* correctCategory: after the update, sendFeedback is called for a row with a
\* description and its promise is left to itself (`.catch` logs a rejection).
TxCorrectCategory ==
  \E id \in 1..MaxTx, userId \in Users, categoryId \in {"c1", "cX"} :
    LET body == CorrectionBody(categoryId)
        auth == TxAuthorise(id, userId, RoleOf(userId))
        outcome == IF auth # "ok" THEN auth ELSE ValidateCategory(categoryId)
    IN /\ access = AccessIdle
       /\ tx.pc = "idle"
       /\ IF outcome = "ok"
          THEN LET existing == TxById(id)
                   updated == [existing EXCEPT !.categoryId = categoryId]
               IN /\ ledger' = (ledger \ {existing}) \cup {updated}
                  /\ access' = AccessCall("transaction", "correctCategory", id, userId,
                                          body, "ok", ledger, updated)
                  /\ feedback' =
                       IF existing.description # "null" /\ ~Blank(existing.description)
                       THEN FeedbackCall("pending", existing.description,
                                         SlugOf(categoryId), "none", "pending")
                       ELSE feedback
          ELSE /\ ledger' = ledger
               /\ access' = AccessCall("transaction", "correctCategory", id, userId,
                                       body, outcome, ledger, NoRow)
               /\ feedback' = feedback
       /\ UNCHANGED <<budgetVars, goalVars, mlVars, nextTxId, tx, progressVars,
                      summaryVars>>

TxDelete ==
  \E id \in 1..MaxTx, userId \in Users :
    LET auth == TxAuthorise(id, userId, RoleOf(userId)) IN
    /\ access = AccessIdle
    /\ tx.pc = "idle"
    /\ ledger' = IF auth = "ok" THEN ledger \ {TxById(id)} ELSE ledger
    /\ access' = AccessCall("transaction", "delete", id, userId, NoBody, auth,
                            ledger, NoRow)
    /\ UNCHANGED notLedgerVars

\* --------------------------------------------------- GoalsService by id
\* What one GoalsService call leaves alone besides the goal table.
notGoalTableVars == <<budgetVars, nextGoalId, glast, greq, mlVars, txVars,
                      progressVars, summaryVars,
    feedbackVars>>

\* findAll: every goal for an administrator, the requester's own otherwise
GoalFindAllWhere(userId, userRole) ==
  IF userRole = "ADMIN" THEN goals ELSE {g \in goals : g.userId = userId}

GoalFindAllAccess ==
  \E userId \in Users :
    /\ access = AccessIdle
    /\ access' = AccessCall("goal", "findAll", 0, userId, NoBody, "ok", goals,
                            GoalFindAllWhere(userId, RoleOf(userId)))
    /\ UNCHANGED <<goals, notGoalTableVars>>

\* findById: the goal, returned with its progress fields
GoalFindByIdAccess ==
  \E id \in 1..MaxGoals, userId \in Users :
    LET auth == GoalAuthorise(id, userId, RoleOf(userId)) IN
    /\ access = AccessIdle
    /\ access' = AccessCall("goal", "findById", id, userId, NoBody, auth, goals,
                            IF auth = "ok" THEN GoalById(id) ELSE NoRow)
    /\ UNCHANGED <<goals, notGoalTableVars>>

\* update (targetAmount 0 stands for a body without it)
GoalUpdateAccess ==
  \E id \in 1..MaxGoals, userId \in Users, targetAmount \in ValidAmounts \cup {0} :
    LET auth == GoalAuthorise(id, userId, RoleOf(userId)) IN
    /\ access = AccessIdle
    /\ goals' = IF auth = "ok" /\ targetAmount # 0
                THEN {IF g.id = id THEN [g EXCEPT !.targetAmount = targetAmount]
                      ELSE g : g \in goals}
                ELSE goals
    /\ access' = AccessCall("goal", "update", id, userId, NoBody, auth, goals, NoRow)
    /\ UNCHANGED notGoalTableVars

GoalDeleteAccess ==
  \E id \in 1..MaxGoals, userId \in Users :
    LET auth == GoalAuthorise(id, userId, RoleOf(userId)) IN
    /\ access = AccessIdle
    /\ goals' = IF auth = "ok" THEN goals \ {GoalById(id)} ELSE goals
    /\ access' = AccessCall("goal", "delete", id, userId, NoBody, auth, goals, NoRow)
    /\ UNCHANGED notGoalTableVars

GoalAllocateAccess ==
  \E id \in 1..MaxGoals, userId \in Users, amount \in ValidAmounts :
    LET auth == GoalAuthorise(id, userId, RoleOf(userId)) IN
    /\ access = AccessIdle
    /\ auth = "ok" => GoalById(id).currentAmount + amount <= MaxBalance * Cent
    /\ goals' = IF auth = "ok"
                THEN WriteCurrentAmount(id,
                       AllocateNewAmount(GoalById(id).currentAmount, amount))
                ELSE goals
    /\ access' = AccessCall("goal", "allocate", id, userId, NoBody, auth, goals, NoRow)
    /\ UNCHANGED notGoalTableVars

GoalWithdrawAccess ==
  \E id \in 1..MaxGoals, userId \in Users, amount \in ValidAmounts :
    LET auth == GoalAuthorise(id, userId, RoleOf(userId))
        outcome == IF auth # "ok" THEN auth
                   ELSE IF WithdrawRejects(GoalById(id).currentAmount, amount)
                   THEN "bad_request"
                   ELSE "ok"
    IN
    /\ access = AccessIdle
    /\ goals' = IF outcome = "ok"
                THEN WriteCurrentAmount(id,
                       WithdrawNewAmount(GoalById(id).currentAmount, amount))
                ELSE goals
    /\ access' = AccessCall("goal", "withdraw", id, userId, NoBody, outcome, goals,
                            NoRow)
    /\ UNCHANGED notGoalTableVars

\* ------------------------------------------------- BudgetsService by id
\* What one BudgetsService call leaves alone besides what its step writes.
notBudgetTableVars == <<breq, bcall, goalVars, mlVars, txVars, progressVars,
                        summaryVars,
    feedbackVars>>

BudgetFindAllAccess ==
  \E userId \in Users :
    \E rows \in FindAllOrders(userId, RoleOf(userId)) :
      /\ access = AccessIdle
      /\ access' = AccessCall("budget", "findAll", 0, userId, NoBody, "ok", budgets,
                              EnrichAll(rows))
      /\ UNCHANGED <<budgets, nextBudgetId, budgetResult, notBudgetTableVars>>

BudgetFindByIdAccess ==
  \E id \in 1..MaxBudgets, userId \in Users :
    LET auth == BudgetAuthorise(id, userId, RoleOf(userId)) IN
    /\ access = AccessIdle
    /\ access' = AccessCall("budget", "findById", id, userId, NoBody, auth, budgets,
                            IF auth = "ok"
                            THEN EnrichWithSummary(ledger, BudgetById(id))
                            ELSE NoRow)
    /\ UNCHANGED <<budgets, nextBudgetId, budgetResult, notBudgetTableVars>>

\* update, with bodies that leave the window alone, move its start to 0 or
\* move its end to MaxTime
BudgetUpdateAccess ==
  \E id \in 1..MaxBudgets, userId \in Users,
     categoryId \in {Absent, NoCategory, "c1", "cX"},
     startAt \in {NoTime, 0}, endAt \in {NoTime, MaxTime} :
    /\ access = AccessIdle
    /\ BudgetUpdateStep(id, userId, categoryId, startAt, endAt)
    /\ access' = AccessCall("budget", "update", id, userId, NoBody, budgetResult',
                            budgets, NoRow)
    /\ UNCHANGED notBudgetTableVars

BudgetDeleteAccess ==
  \E id \in 1..MaxBudgets, userId \in Users :
    /\ access = AccessIdle
    /\ BudgetDeleteStep(id, userId)
    /\ access' = AccessCall("budget", "delete", id, userId, NoBody, budgetResult',
                            budgets, NoRow)
    /\ UNCHANGED notBudgetTableVars

\* ------------------------------------------------ the tables of the calls
\* The table a service keeps, and the rows a list call returned (the budget
\* list is ordered).
AccessTable(entity) ==
  IF entity = "budget" THEN budgets
  ELSE IF entity = "goal" THEN goals
  ELSE ledger

AccessListed(call) ==
  IF call.entity = "budget" THEN {call.result[i] : i \in 1..Len(call.result)}
  ELSE call.result

\* One of the three tables holds rows of either owner; the calls are made
\* against it and against the two empty tables.
AccessStoreInit ==
  \E entity \in {"budget", "goal", "transaction"}, o1 \in Users, o2 \in Users :
    /\ budgets = IF entity = "budget"
                 THEN {LimitedBudgetRow(1, o1, NoCategory, 0, 1, Cent),
                       LimitedBudgetRow(2, o2, NoCategory, 1, 2, Cent)}
                 ELSE {}
    /\ nextBudgetId = Cardinality(budgets) + 1
    /\ budgetResult = "none"
    /\ breq = [r \in 1..2 |-> [pc |-> "idle"]]
    /\ bcall = BudgetIdle
    /\ goals = IF entity = "goal" THEN {GoalRow(1, o1, 2 * Cent, Cent)} ELSE {}
    /\ nextGoalId = Cardinality(goals) + 1
    /\ glast = GoalEvent("none", 0, 0, 0, "none", 0)
    /\ greq = [r \in 1..2 |-> [pc |-> "idle"]]
    /\ ledger = IF entity = "transaction"
                THEN {TxRow(1, o1, "income", "lunch", Absent, "salary")}
                ELSE {}
    /\ nextTxId = Cardinality(ledger) + 1
    /\ tx = TxIdle

NextAccess ==
  \/ BudgetFindAllAccess
  \/ BudgetFindByIdAccess
  \/ BudgetUpdateAccess
  \/ BudgetDeleteAccess
  \/ GoalFindAllAccess
  \/ GoalFindByIdAccess
  \/ GoalUpdateAccess
  \/ GoalDeleteAccess
  \/ GoalAllocateAccess
  \/ GoalWithdrawAccess
  \/ TxFindAll
  \/ TxFindById
  \/ TxUpdate
  \/ TxCorrectCategory
  \/ TxDelete
  \/ AccessReturn

\* ------------------------------------------------------- goals: nudges
\* A goal row with the columns getGoalNudges reads.
DatedGoalRow(id, userId, targetAmount, currentAmount, deadline, createdAt) ==
  [id |-> id, userId |-> userId, targetAmount |-> targetAmount,
   currentAmount |-> currentAmount, deadline |-> deadline, createdAt |-> createdAt]

\* orderBy: [{ deadline: "asc" }, { createdAt: "desc" }], nulls last
GoalFindAllOrder(rows) ==
  LET key(g) == IF g.deadline = NoDeadline THEN 1000000 ELSE g.deadline
  IN CHOOSE f \in SeqsOf(rows) :
       \A i \in 1..Len(f), j \in 1..Len(f) : i < j => key(f[i]) <= key(f[j])

\* a * n / d rounded to the nearest whole number, for a >= 0, n >= 0 and
\* d > 0, without forming a * n
MulDivRound(a, n, d) == (a \div d) * n + DivRound((a % d) * n, d)

WEEKS_EARLY == 2

\* +(weeklyToFinishEarly - requiredWeekly).toFixed(2) with
\* weeksRemaining = daysRemaining / 7, requiredWeekly = remaining / weeksRemaining
\* and weeklyToFinishEarly = remaining / (weeksRemaining - WEEKS_EARLY)
MutExtraPerWeekTruncates(remaining, daysRemaining) ==
  LET daysToFinishEarly == daysRemaining - 7 * WEEKS_EARLY
  IN Cent * (((remaining \div Cent) * (7 * daysRemaining - 7 * daysToFinishEarly))
              \div (daysToFinishEarly * daysRemaining))

ExtraPerWeek(remaining, daysRemaining) ==
  LET daysToFinishEarly == daysRemaining - 7 * WEEKS_EARLY
  IN Cent * MulDivRound(remaining \div Cent,
                        7 * daysRemaining - 7 * daysToFinishEarly,
                        daysToFinishEarly * daysRemaining)

\* The body of the loop of getGoalNudges for one enriched goal: the nudges it
\* pushes. MIN_WEEKS_REMAINING = 2.5 is 35 half-weeks of days.
NudgesOfGoal(g) ==
  IF g.status \in {"completed", "overdue", "in_progress"} THEN <<>>
  ELSE IF g.daysRemaining = NoDeadline \/ g.daysRemaining <= 0 THEN <<>>
  ELSE IF 2 * g.daysRemaining < 35 THEN <<>>
  ELSE LET remaining == ToFixed2(g.targetAmount - g.currentAmount)
       IN IF remaining <= 0 THEN <<>>
          ELSE IF g.daysRemaining - 7 * WEEKS_EARLY <= 0 THEN <<>>
          ELSE LET extraPerWeek == ExtraPerWeek(remaining, g.daysRemaining)
               IN IF extraPerWeek > 0 /\ extraPerWeek < 1000000 * 100 * Cent
                  THEN <<[id |-> g.id, type |-> "goal_save_early",
                          extraPerWeek |-> extraPerWeek]>>
                  ELSE <<>>

RECURSIVE NudgesOfGoals(_, _)
NudgesOfGoals(list, now) ==
  IF list = <<>> THEN <<>>
  ELSE NudgesOfGoal([id |-> Head(list).id] @@ EnrichWithProgress(Head(list), now))
       \o NudgesOfGoals(Tail(list), now)

\* getGoalNudges of userId at the instant now.
GetGoalNudges ==
  \E userId \in Users :
    /\ summary = NoSummary
    /\ summary' = [op |-> "goalNudges", userId |-> userId, now |-> clock,
                   result |-> NudgesOfGoals(
                                GoalFindAllOrder(GoalFindAllWhere(userId, "USER")),
                                clock)]
    /\ UNCHANGED <<budgets, ledger, notSummaryVars>>

\* The goals under examination: small targets with nothing or 0.01 saved,
\* 25.00 with 24.99 saved, and two targets near 969,387.755, where the extra
\* amount for 19 days crosses 1,000,000; no deadline, a deadline at 0, and
\* deadlines 35, 36, 38 and 140 half-days from 0.
NudgeGoalAmounts ==
  {<<t, c>> : t \in ValidAmounts, c \in {0, Cent}}
  \cup {<<2500 * Cent, 2499 * Cent>>,
        <<96938776 * Cent, 0>>, <<96938775 * Cent, 0>>}

NudgeGoalDeadlines == {NoDeadline, 0, 35, 36, 38, 140}

NudgeGoalStores ==
  UNION {
    { {DatedGoalRow(k, owner[k], amounts[k][1], amounts[k][2], deadline[k], 0)
         : k \in 1..n}
      : owner \in [1..n -> Users], amounts \in [1..n -> NudgeGoalAmounts],
        deadline \in [1..n -> NudgeGoalDeadlines] }
    : n \in 0..MaxGoals }

NudgeGoalInit ==
  /\ goals \in NudgeGoalStores
  /\ nextGoalId = Cardinality(goals) + 1
  /\ glast = GoalEvent("none", 0, 0, 0, "none", 0)
  /\ greq = [r \in 1..2 |-> [pc |-> "idle"]]

NextGoalNudges == GetGoalNudges \/ NudgeLater

\* ------------------------------------------- analytics: Number arithmetic
\* A natural number as the sequence of its digits to the base 32768, lowest
\* first and without leading zeros; 0 is the empty sequence.
RECURSIVE NatOf(_)
NatOf(n) == IF n = 0 THEN <<>> ELSE <<n % 32768>> \o NatOf(n \div 32768)

RECURSIVE TrimNat(_)
TrimNat(a) ==
  IF a = <<>> THEN <<>>
  ELSE IF a[Len(a)] = 0 THEN TrimNat(SubSeq(a, 1, Len(a) - 1))
  ELSE a

RECURSIVE AddNat(_, _, _)
AddNat(a, b, carry) ==
  IF a = <<>> /\ b = <<>> THEN NatOf(carry)
  ELSE LET s == (IF a = <<>> THEN 0 ELSE Head(a))
                + (IF b = <<>> THEN 0 ELSE Head(b)) + carry
       IN <<s % 32768>>
          \o AddNat(IF a = <<>> THEN <<>> ELSE Tail(a),
                    IF b = <<>> THEN <<>> ELSE Tail(b), s \div 32768)

\* a - b for a >= b, digits not yet trimmed
RECURSIVE SubDigits(_, _, _)
SubDigits(a, b, borrow) ==
  IF a = <<>> THEN <<>>
  ELSE LET s == Head(a) - (IF b = <<>> THEN 0 ELSE Head(b)) - borrow
       IN <<s % 32768>>
          \o SubDigits(Tail(a), IF b = <<>> THEN <<>> ELSE Tail(b),
                       IF s < 0 THEN 1 ELSE 0)

SubNat(a, b) == TrimNat(SubDigits(a, b, 0))

\* a * k for 0 <= k <= 32768
RECURSIVE MulSmall(_, _, _)
MulSmall(a, k, carry) ==
  IF a = <<>> THEN NatOf(carry)
  ELSE LET p == Head(a) * k + carry
       IN <<p % 32768>> \o MulSmall(Tail(a), k, p \div 32768)

RECURSIVE MulDigits(_, _)
MulDigits(a, b) ==
  IF b = <<>> THEN <<>>
  ELSE AddNat(MulSmall(a, Head(b), 0), <<0>> \o MulDigits(a, Tail(b)), 0)

MulNat(a, b) == TrimNat(MulDigits(a, b))

\* quotient (not yet trimmed) and remainder of a by k, 0 < k <= 32768
RECURSIVE DivRem(_, _)
DivRem(a, k) ==
  IF a = <<>> THEN [q |-> <<>>, r |-> 0]
  ELSE LET hi == DivRem(Tail(a), k)
           cur == hi.r * 32768 + Head(a)
       IN [q |-> <<cur \div k>> \o hi.q, r |-> cur % k]

\* -1, 0, 1 as a < b, a = b, a > b
RECURSIVE CmpNat(_, _)
CmpNat(a, b) ==
  IF Len(a) # Len(b) THEN (IF Len(a) < Len(b) THEN 0 - 1 ELSE 1)
  ELSE IF a = <<>> THEN 0
  ELSE IF a[Len(a)] # b[Len(b)] THEN (IF a[Len(a)] < b[Len(b)] THEN 0 - 1 ELSE 1)
  ELSE CmpNat(SubSeq(a, 1, Len(a) - 1), SubSeq(b, 1, Len(b) - 1))

RECURSIVE BitLenSmall(_)
BitLenSmall(n) == IF n = 0 THEN 0 ELSE 1 + BitLenSmall(n \div 2)

BitLen(a) == IF a = <<>> THEN 0 ELSE 15 * (Len(a) - 1) + BitLenSmall(a[Len(a)])

ShiftLeft(a, s) ==
  IF a = <<>> THEN <<>>
  ELSE TrimNat([i \in 1..(s \div 15) |-> 0] \o MulSmall(a, 2^(s % 15), 0))

ShiftRight(a, s) ==
  IF s \div 15 >= Len(a) THEN <<>>
  ELSE TrimNat(DivRem(SubSeq(a, (s \div 15) + 1, Len(a)), 2^(s % 15)).q)

\* a / 2^s to the nearest natural number, ties to even; sticky says that
\* digits below those of a were cut off
RoundShift(a, s, sticky) ==
  LET q == ShiftRight(a, s)
      c == CmpNat(SubNat(a, ShiftLeft(q, s)), ShiftLeft(<<1>>, s - 1))
      odd == q # <<>> /\ q[1] % 2 = 1
  IN IF c > 0 \/ (c = 0 /\ (sticky \/ odd)) THEN AddNat(q, <<1>>, 0) ELSE q

\* A Number that is not negative: m * 2^e with m of 53 bits, or zero.
FloatZero == [m |-> <<>>, e |-> 0]

\* The Number nearest to n * 2^e, ties to even (n of more than 53 bits when
\* sticky).
RoundFloat(n, e, sticky) ==
  IF n = <<>> THEN FloatZero
  ELSE LET len == BitLen(n)
       IN IF len <= 53
          THEN [m |-> ShiftLeft(n, 53 - len), e |-> e - (53 - len)]
          ELSE LET r == RoundShift(n, len - 53, sticky)
               IN IF BitLen(r) > 53
                  THEN [m |-> ShiftRight(r, 1), e |-> e + (len - 53) + 1]
                  ELSE [m |-> r, e |-> e + (len - 53)]

\* The Number nearest to p / q, for 0 < q <= 32768: a decimal literal, or
\* Number() of a Decimal.
FloatOfRatio(p, q) ==
  LET d == DivRem(ShiftLeft(NatOf(p), 75), q)
  IN RoundFloat(TrimNat(d.q), 0 - 75, d.r # 0)

FloatAdd(a, b) ==
  IF a = FloatZero THEN b
  ELSE IF b = FloatZero THEN a
  ELSE LET e == IF a.e <= b.e THEN a.e ELSE b.e
       IN RoundFloat(AddNat(ShiftLeft(a.m, a.e - e), ShiftLeft(b.m, b.e - e), 0),
                     e, FALSE)

\* a / k for a whole number k, 0 < k <= 32768
FloatDivInt(a, k) ==
  IF a = FloatZero THEN FloatZero
  ELSE LET d == DivRem(ShiftLeft(a.m, 75), k)
       IN RoundFloat(TrimNat(d.q), a.e - 75, d.r # 0)

FloatMul(a, b) ==
  IF a = FloatZero \/ b = FloatZero THEN FloatZero
  ELSE RoundFloat(MulNat(a.m, b.m), a.e + b.e, FALSE)

FloatGeq(a, b) ==
  IF b = FloatZero THEN TRUE
  ELSE IF a = FloatZero THEN FALSE
  ELSE a.e > b.e \/ (a.e = b.e /\ CmpNat(a.m, b.m) >= 0)

\* ---------------------------------------------------- analytics: insights
\* The examination starts at 00:00 on 28 February 1970, a Saturday, in
\* half-days since 1 January 1970, and the clock runs on from there.
InsightEpoch == 116

InsightNow == InsightEpoch + clock

\* The day that holds an instant, in days since 1 January 1970.
DayOf(t) == t \div msPerDay

\* The first days of January to May 1970.
MonthStartDays == {0, 31, 59, 90, 120}

\* new Date(now.getFullYear(), now.getMonth(), 1)
ThisMonthStart(now) ==
  msPerDay * (CHOOSE d \in MonthStartDays :
                /\ d <= DayOf(now)
                /\ \A x \in MonthStartDays : x <= DayOf(now) => x <= d)

\* new Date(thisMonthStart.getTime() - 1): the last instant before this month
LastMonthEnd(now) == ThisMonthStart(now) - 1

\* new Date(now.getFullYear(), now.getMonth() - 1, 1)
LastMonthStart(now) == ThisMonthStart(LastMonthEnd(now))

\* The category table as the insights read it: id and slug.
CategoryTable ==
  {[id |-> "c1", slug |-> "food"], [id |-> "c0", slug |-> "income"]}

\* category.findMany({ where: { slug: { not: "income" } } })
SpikeCategories == {cat \in CategoryTable : cat.slug # "income"}

\* The two aggregates of categorySpikeInsights for one category.
ThisMonthSum(userId, cat, now) ==
  SumAmount({t \in ledger :
               /\ t.userId = userId
               /\ t.type = "expense"
               /\ t.categoryId = cat.id
               /\ t.date >= ThisMonthStart(now)
               /\ t.date <= now})

LastMonthSum(userId, cat, now) ==
  SumAmount({t \in ledger :
               /\ t.userId = userId
               /\ t.type = "expense"
               /\ t.categoryId = cat.id
               /\ t.date >= LastMonthStart(now)
               /\ t.date <= LastMonthEnd(now)})

CATEGORY_SPIKE_RATIO == 2

\* lastMonth > 0 && thisMonth >= lastMonth * CATEGORY_SPIKE_RATIO
MutIsSpikeStrictlyAbove(thisMonth, lastMonth) ==
  lastMonth > 0 /\ thisMonth > lastMonth * CATEGORY_SPIKE_RATIO

IsSpike(thisMonth, lastMonth) ==
  lastMonth > 0 /\ thisMonth >= lastMonth * CATEGORY_SPIKE_RATIO

SpikeInsight(cat) == [type |-> "category_spike", slug |-> cat.slug]

\* The loop of categorySpikeInsights over the categories found.
RECURSIVE SpikesOf(_, _, _)
SpikesOf(list, userId, now) ==
  IF list = <<>> THEN <<>>
  ELSE (IF IsSpike(ThisMonthSum(userId, Head(list), now),
                   LastMonthSum(userId, Head(list), now))
        THEN <<SpikeInsight(Head(list))>> ELSE <<>>)
       \o SpikesOf(Tail(list), userId, now)

CategorySpikeInsights ==
  \E userId \in Users, order \in SeqsOf(SpikeCategories) :
    /\ summary = NoSummary
    /\ summary' = [op |-> "categorySpikes", userId |-> userId, now |-> InsightNow,
                   result |-> SpikesOf(order, userId, InsightNow)]
    /\ UNCHANGED <<budgets, ledger, notSummaryVars>>

\* The transactions recorded while spikes are examined: food expenses of u1
\* dated at noon on 31 January, at 00:00 on 1 February, at noon on
\* 28 February, at 00:00 on 1 March and at noon on 2 March, of 1800.00,
\* 3000.00 and 4000.00 and the small amounts; and, in each of February and
\* March, an expense of u1 in the income category, an income of u1 and an
\* expense of the other user.
SpikeLedgerRows ==
  {LedgerRow("u1", "expense", "c1", d, a) :
     d \in {61, 62, 117, 118, 121},
     a \in ValidAmounts \cup {180000 * Cent, 300000 * Cent, 400000 * Cent}}
  \cup {LedgerRow("u1", "expense", "c0", d, a) :
          d \in {62, 118}, a \in {180000 * Cent, 400000 * Cent}}
  \cup {LedgerRow("u1", "income", "c1", d, 400000 * Cent) : d \in {62, 118}}
  \cup {LedgerRow("admin", "expense", "c1", d, 400000 * Cent) : d \in {62, 118}}

SpikeLedgerRecord == LedgerRecordOf(SpikeLedgerRows)

NextSpikes == CategorySpikeInsights \/ SpikeLedgerRecord \/ NudgeLater

\* ------------------------------------------- insights: weekend pattern
DAYS_LOOKBACK == 30

\* 1.2, the literal of WEEKEND_HIGHER_RATIO and of WEEKEND_OVESPEND_RATIO
WEEKEND_HIGHER_RATIO == FloatOfRatio(12, 10)

WEEKEND_OVESPEND_RATIO == FloatOfRatio(12, 10)

\* Number(t.amount) of a Decimal of whole cents
NumberOfAmount(amount) == FloatOfRatio(amount \div Cent, 100)

\* d.toISOString().slice(0, 10) and d.getDay(), the server's clock being
\* UTC; 1 January 1970 was a Thursday.
DayKey(t) == DayOf(t)

GetDay(t) == (4 + DayOf(t)) % 7

IsWeekend(t) == GetDay(t) = 0 \/ GetDay(t) = 6

\* findMany({ where: { userId, type: "expense", date: { gte: start, lte: end } } })
\* with start = end - DAYS_LOOKBACK days
WeekendExpenses(userId, end) ==
  {t \in ledger : /\ t.userId = userId
                  /\ t.type = "expense"
                  /\ t.date >= end - DAYS_LOOKBACK * msPerDay
                  /\ t.date <= end}

\* weekendTotal or weekdayTotal after the loop over the rows in the order
\* found: `total += amount` from 0.
RECURSIVE BucketTotal(_, _)
BucketTotal(list, weekend) ==
  IF list = <<>> THEN FloatZero
  ELSE LET before == BucketTotal(SubSeq(list, 1, Len(list) - 1), weekend)
           t == list[Len(list)]
       IN IF IsWeekend(t.date) = weekend
          THEN FloatAdd(before, NumberOfAmount(t.amount))
          ELSE before

\* weekendDays or weekdayDays of weekendInsight: a Set of day keys.
BucketDaySet(list, weekend) ==
  {DayKey(list[i].date) : i \in {j \in 1..Len(list) : IsWeekend(list[j].date) = weekend}}

\* weekendDays or weekdayDays of getWeekendOverspendNudge: a counter raised
\* for each key not seen before.
RECURSIVE BucketDayCount(_, _)
BucketDayCount(list, weekend) ==
  IF list = <<>> THEN 0
  ELSE LET before == SubSeq(list, 1, Len(list) - 1)
           t == list[Len(list)]
       IN IF IsWeekend(t.date) = weekend
             /\ DayKey(t.date) \notin BucketDaySet(before, weekend)
          THEN BucketDayCount(before, weekend) + 1
          ELSE BucketDayCount(before, weekend)

\* AnalyticsService.weekendInsight on the rows found, in their order.
WeekendInsight(list) ==
  LET weekendDays == Cardinality(BucketDaySet(list, TRUE))
      weekdayDays == Cardinality(BucketDaySet(list, FALSE))
      weekendDaily == IF weekendDays > 0
                      THEN FloatDivInt(BucketTotal(list, TRUE), weekendDays)
                      ELSE FloatZero
      weekdayDaily == IF weekdayDays > 0
                      THEN FloatDivInt(BucketTotal(list, FALSE), weekdayDays)
                      ELSE FloatZero
  IN IF weekdayDaily # FloatZero
        /\ FloatGeq(weekendDaily, FloatMul(weekdayDaily, WEEKEND_HIGHER_RATIO))
     THEN "weekend_pattern"
     ELSE NoNudge

\* BudgetsService.getWeekendOverspendNudge on the rows found, in their order.
WeekendOverspendNudge(list) ==
  LET weekendDays == BucketDayCount(list, TRUE)
      weekdayDays == BucketDayCount(list, FALSE)
      weekendDaily == IF weekendDays > 0
                      THEN FloatDivInt(BucketTotal(list, TRUE), weekendDays)
                      ELSE FloatZero
      weekdayDaily == IF weekdayDays > 0
                      THEN FloatDivInt(BucketTotal(list, FALSE), weekdayDays)
                      ELSE FloatZero
  IN IF weekdayDaily # FloatZero
        /\ FloatGeq(weekendDaily, FloatMul(weekdayDaily, WEEKEND_OVESPEND_RATIO))
     THEN "weekend_overspend_pattern"
     ELSE NoNudge

\* Both heuristics are asked about one user at one instant; each query
\* returns the rows in an order of its own.
WeekendCheck ==
  \E userId \in Users :
    \E found \in SeqsOf(WeekendExpenses(userId, InsightNow)),
       expenses \in SeqsOf(WeekendExpenses(userId, InsightNow)) :
      /\ summary = NoSummary
      /\ summary' = [op |-> "weekend", userId |-> userId, now |-> InsightNow,
                     insight |-> WeekendInsight(found),
                     nudge |-> WeekendOverspendNudge(expenses)]
      /\ UNCHANGED <<budgets, ledger, notSummaryVars>>

\* The transactions recorded while the weekend pattern is examined. Expenses
\* of u1 of 0.05, 0.06, 5.15, 6.17, 6.18 and the small amounts, dated: noon on Wednesday
\* 28 January (55) and 00:00 on Thursday 29 January (56), 30 days before the
\* examination starts; Thursday 26 February (112); Friday 27 February at
\* 00:00 and noon (114, 115); Saturday 28 February at 00:00 and noon
\* (116, 117); Sunday 1 March (118). And a Friday income of u1 and a Friday
\* expense of the other user.
WeekendLedgerRows ==
  {LedgerRow("u1", "expense", NoCategory, d, a) :
     d \in {55, 56, 112, 114, 115, 116, 117, 118},
     a \in ValidAmounts \cup {5 * Cent, 6 * Cent, 515 * Cent, 617 * Cent, 618 * Cent}}
  \cup {LedgerRow("u1", "income", NoCategory, 114, 515 * Cent),
        LedgerRow("admin", "expense", NoCategory, 114, 515 * Cent)}

WeekendLedgerRecord == LedgerRecordOf(WeekendLedgerRows)

NextWeekend == WeekendCheck \/ WeekendLedgerRecord \/ NudgeLater

\* Budgets are created and transactions recorded.
NextWindows ==
  \/ BudgetCreateCall
  \/ BudgetReturn
  \/ AlertLedgerRecord

\* A writing call is started once the previous read has been answered.
GoalCallNext == access = AccessIdle /\ NextGoalSeq

\* Every GoalsService operation, one call at a time.
NextGoalFrame ==
  \/ GoalCallNext
  \/ GoalFindAllAccess
  \/ GoalFindByIdAccess
  \/ AccessReturn

\* create is started once the previous call has been answered
TxCreateNext == access = AccessIdle /\ TxCreateBegin

\* create and correctCategory, one call at a time, and the feedback request
NextFeedback ==
  \/ TxCreateNext
  \/ TxCreateFinish
  \/ TxReturn
  \/ TxCorrectCategory
  \/ FeedbackSettle
  \/ AccessReturn

\* create and update, one call at a time
NextTxUpdate ==
  \/ TxCreateNext
  \/ TxCreateFinish
  \/ TxReturn
  \/ TxUpdate
  \/ AccessReturn

\* ---------------------------------------------------------- specifications
Init == BudgetInit /\ GoalInit /\ MlInit /\ TxInit /\ ProgressInit /\ SummaryInit

SpecBudgetSeq == Init /\ [][NextBudgetSeq]_vars

SpecBudgetConc == Init /\ [][NextBudgetConc]_vars

SpecBudgetCreate == Init /\ [][NextBudgetCreate]_vars

SpecBudgetCalls == Init /\ [][NextBudgetCalls]_vars

SpecGoalSeq == Init /\ [][NextGoalSeq]_vars

SpecGoalConc == Init /\ [][NextGoalConc]_vars

SpecGoalFrame == Init /\ [][NextGoalFrame]_vars

InitGoalNudges ==
  BudgetInit /\ NudgeGoalInit /\ MlInit /\ TxInit /\ ProgressInit /\ SummaryInit

SpecGoalNudges == InitGoalNudges /\ [][NextGoalNudges]_vars

SpecSpikes == Init /\ [][NextSpikes]_vars

SpecWeekend == Init /\ [][NextWeekend]_vars

SpecWindows == Init /\ [][NextWindows]_vars

InitConfigured ==
  BudgetInit /\ GoalInit /\ MlInitConfigured /\ TxInit /\ ProgressInit /\ SummaryInit

SpecMl == InitConfigured /\ [][NextMl]_vars

SpecTx == Init /\ [][NextTx]_vars

SpecTxUpdate == Init /\ [][NextTxUpdate]_vars

SpecFeedback == Init /\ [][NextFeedback]_vars

InitAccess == AccessStoreInit /\ MlInit /\ ProgressInit /\ SummaryInit

SpecAccess == InitAccess /\ [][NextAccess]_vars

InitProgress ==
  BudgetInit /\ GoalInit /\ MlInit /\ TxInit /\ ProgressInitAny /\ SummaryInit

InitSummary ==
  SummaryStoreInit /\ GoalInit /\ MlInit /\ TxInit /\ ProgressInit /\ SummaryInit

SpecSummary == InitSummary /\ [][NextSummary]_vars

InitAlerts ==
  AlertStoreInit /\ GoalInit /\ MlInit /\ TxInit /\ ProgressInit /\ SummaryInit

SpecAlerts == InitAlerts /\ [][NextAlerts]_vars

InitUnderBudget ==
  UnderBudgetStoreInit /\ GoalInit /\ MlInit /\ TxInit /\ ProgressInit /\ SummaryInit

SpecUnderBudget == InitUnderBudget /\ [][NextUnderBudget]_vars

InitGetAlerts == AggStoreInit /\ GoalInit /\ MlInit /\ ProgressInit /\ SummaryInit

SpecGetAlerts == InitGetAlerts /\ [][NextGetAlerts]_vars

SpecProgress == InitProgress /\ [][NextProgress]_vars



\* ------------------------------------------------------------------ claims
\* C1: no two stored budgets of the same owner and the same category (null =
\* overall) have windows with B1.startAt < B2.endAt and B1.endAt > B2.startAt,
\* after any sequence of create, update and delete calls run one at a time.
BudgetNonOverlap ==
  \A b1 \in budgets, b2 \in budgets :
    (b1.id # b2.id /\ b1.userId = b2.userId /\ b1.categoryId = b2.categoryId)
      => ~(b1.startAt < b2.endAt /\ b1.endAt > b2.startAt)

\* C2: of two concurrent create requests for the same user and category
\* whose windows overlap, at most one is accepted and inserted.
ConcurrentCreateExclusive ==
  ~ ( /\ breq[1].pc = "done" /\ breq[1].result = "created"
      /\ breq[2].pc = "done" /\ breq[2].result = "created"
      /\ breq[1].userId = breq[2].userId
      /\ OrNull(breq[1].categoryId) = OrNull(breq[2].categoryId)
      /\ breq[1].startAt < breq[2].endAt
      /\ breq[1].endAt > breq[2].startAt )

\* C7: every stored goal has currentAmount >= 0, whatever the order of the
\* read and write steps of concurrent allocate and withdraw requests.
GoalBalanceNonNegative == \A g \in goals : g.currentAmount >= 0

\* A withdrawal is between its read and its write while another request has
\* already taken the stored balance below the amount it is about to take.
GoalBalanceRaceWitness ==
  \E r \in 1..2 :
    /\ greq[r].pc = "loaded"
    /\ greq[r].op = "withdraw"
    /\ \E g \in goals : g.id = greq[r].id /\ g.currentAmount < greq[r].amount

\* C8: a withdraw of more than the goal's currentAmount answers bad-request,
\* states the available balance, writes nothing and leaves every stored
\* currentAmount as it was.
WithdrawOverBalanceRejected ==
  [][ (/\ glast' # glast
       /\ glast'.op = "withdraw"
       /\ GoalExists(glast'.id)
       /\ glast'.result \notin {"forbidden"}
       /\ glast'.amount > GoalById(glast'.id).currentAmount)
      => (/\ glast'.result = "bad_request"
          /\ glast'.stated = GoalById(glast'.id).currentAmount
          /\ goals' = goals) ]_vars

WithdrawOverBalanceWitness ==
  /\ glast.op = "withdraw"
  /\ glast.result = "bad_request"
  /\ \E g \in goals : g.id = glast.id /\ g.currentAmount > 0 /\ glast.amount > g.currentAmount

\* C9: allocate(a) directly followed by withdraw(a) on the same goal (by a
\* requester allowed to touch it) succeeds and leaves currentAmount at its
\* value before the allocate.
AllocateWithdrawRoundTrip ==
  (glast.op = "withdraw" /\ glast.base # NoBase /\ glast.result # "forbidden")
    => /\ glast.result = "ok"
       /\ \E g \in goals : g.id = glast.id /\ g.currentAmount = glast.base

AllocateWithdrawRoundTripWitness ==
  /\ glast.op = "withdraw" /\ glast.result = "ok"
  /\ glast.base > 0
  /\ \E g \in goals : g.id = glast.id /\ g.currentAmount = glast.base

\* C3: a finished categorise or ping was never rejected; after a network
\* error, a timeout, a non-success status, a body that is not JSON or a broken
\* body read, categorise answered null and ping {available: false}; and ping
\* answers available: true only for a success response with status "ok".
MlDegradesToNull ==
  ml.pc = "done" =>
    /\ ml.result # Thrown
    /\ ( \/ ml.cause \in {"network_error", "timeout", "http_error", "body_error"}
         \/ (ml.cause = "body" /\ ~BodyParses(ml.body)) )
       => ml.result = IF ml.kind = "ping" THEN Health(FALSE) ELSE NullResult
    /\ (ml.kind = "ping" /\ ml.result.available)
       => (ml.ok = "ok" /\ BodyStatus(ml.body) = "ok")

MlDegradesToNullWitness ==
  /\ ml.pc = "done"
  /\ ml.kind = "categorise"
  /\ ml.cause = "body" /\ ml.body = "null"
  /\ ml.result = NullResult

\* C4: a pending categorise or ping never outlives its timer bound
\* (timeoutMs, 2 s for ping), whatever the service does.
MlBoundedResponse ==
  ml.pc \in {"fetching", "body"} => ml.elapsed <= MlBound(ml.kind)

\* C6: a non-null answer of categorise comes from a success response whose
\* body carries a category_slug and a confidence.
MlPredictionWellFormed ==
  (ml.pc = "done" /\ ml.kind = "categorise" /\ ml.result # NullResult)
    => /\ ml.ok = "ok"
       /\ BodySlug(ml.body) # "undefined"
       /\ BodyConfidence(ml.body) # "undefined"

\* C5: a finished create of a valid request whose classifier call answered
\* null, or was not made, succeeded, stored exactly one row and returned it
\* with suggestedCategoryId and categoryConfidence unset; and a returned
\* suggestion is the id of the category the predicted slug resolves to.
CreateSurvivesClassifier ==
  tx.pc = "done" =>
    /\ (tx.valid /\ (~tx.consulted \/ tx.prediction = NullResult))
       => /\ tx.result = "ok"
          /\ Cardinality(ledger) = tx.before + 1
          /\ tx.returned \in ledger
          /\ tx.returned.id = tx.id
          /\ tx.returned.suggestedCategoryId = NoCategory
          /\ tx.returned.categoryConfidence = "null"
    /\ \A r \in ledger :
         (r.id = tx.id /\ r.suggestedCategoryId # NoCategory)
         => /\ tx.prediction # NullResult
            /\ r.suggestedCategoryId \in Categories
            /\ SlugOf(r.suggestedCategoryId) = tx.prediction.suggestedCategorySlug

CreateSurvivesClassifierWitness ==
  /\ tx.pc = "done"
  /\ tx.consulted
  /\ tx.prediction = NullResult
  /\ tx.result = "ok"
  /\ tx.returned \in ledger
  /\ tx.returned.suggestedCategoryId = NoCategory

\* C10: status is assigned by first match: completed at 100 %; else overdue
\* when there is a deadline and daysRemaining < 0; else on_track or at_risk
\* when there is a deadline and daysRemaining > 0; and in_progress only for a
\* goal without a deadline.
StatusFirstMatch ==
  progress # NoProgress =>
    /\ progress.percentage >= 1000 => progress.status = "completed"
    /\ (progress.percentage < 1000 /\ pgoal.deadline # NoDeadline
        /\ progress.daysRemaining < 0) => progress.status = "overdue"
    /\ (progress.percentage < 1000 /\ pgoal.deadline # NoDeadline
        /\ progress.daysRemaining > 0) => progress.status \in {"on_track", "at_risk"}
    /\ progress.status = "in_progress" => pgoal.deadline = NoDeadline

\* C11: for a goal with a deadline ahead and less than 100 %, status is
\* on_track exactly when currentAmount / daysElapsed >=
\* (targetAmount - currentAmount) / daysRemaining, or daysRemaining <= 7 and
\* percentage >= 90, and at_risk otherwise (the rates compared exactly, by
\* cross-multiplication), with daysElapsed = max(1, whole days since creation).
OnTrackRule ==
  (/\ progress # NoProgress
   /\ pgoal.deadline # NoDeadline
   /\ progress.daysRemaining > 0
   /\ progress.percentage < 1000)
  => LET daysElapsed == Max(1, (clock - pgoal.createdAt) \div msPerDay)
         fastEnough ==
           progress.currentAmount * progress.daysRemaining
             >= (progress.targetAmount - progress.currentAmount) * daysElapsed
         nearlyThere == progress.daysRemaining <= 7 /\ progress.percentage >= 900
     IN progress.status = IF fastEnough \/ nearlyThere THEN "on_track" ELSE "at_risk"

\* C12: the percentage of every goal with a positive target and a balance
\* that is not negative lies in [0, 100], also with a balance above the target.
PercentageInRange ==
  progress # NoProgress =>
    (progress.percentage >= 0 /\ progress.percentage <= 1000)

PercentageInRangeWitness ==
  /\ progress # NoProgress
  /\ pgoal.currentAmount > pgoal.targetAmount
  /\ progress.percentage = 1000

UpdateRevalidatesOverlap ==
  (/\ bcall # BudgetIdle
   /\ bcall.op = "update"
   /\ bcall.outcome \in {"conflict", "updated"})
  => LET existing == CHOOSE b \in bcall.before : b.id = bcall.id
         newStart == IF bcall.startAt # NoTime THEN bcall.startAt ELSE existing.startAt
         newEnd == IF bcall.endAt # NoTime THEN bcall.endAt ELSE existing.endAt
         newCategoryId ==
           IF bcall.categoryId # Absent THEN bcall.categoryId ELSE existing.categoryId
         supplied ==
           bcall.startAt # NoTime \/ bcall.endAt # NoTime \/ bcall.categoryId # Absent
         overlapsOther ==
           \E b \in bcall.before :
             /\ b.id # bcall.id
             /\ b.userId = existing.userId
             /\ b.categoryId = newCategoryId
             /\ b.startAt < newEnd
             /\ newStart < b.endAt
     IN /\ bcall.outcome = IF supplied /\ overlapsOther THEN "conflict" ELSE "updated"
        /\ bcall.outcome = "conflict" => budgets = bcall.before

\* C15: the summary of a budget has totalSpent = the sum of its owner's
\* expenses dated within [startAt, endAt], of its category when it has one;
\* remaining = limitAmount - totalSpent; percentageUsed = totalSpent /
\* limitAmount * 100, to the one decimal it is reported with; and alertStatus
\* over iff that quotient is at least 100, near iff it is at least 80 and
\* below 100, ok otherwise.
SummaryMatchesLedger ==
  summary # NoSummary /\ summary.op = "findById" =>
    LET b == summary.budget
        r == summary.result
        counted ==
          {t \in ledger :
             /\ t.userId = b.userId /\ t.type = "expense"
             /\ b.startAt <= t.date /\ t.date <= b.endAt
             /\ (b.categoryId = NoCategory \/ t.categoryId = b.categoryId)}
        spent == SumAmount(counted)
    IN /\ r.totalSpent = spent
       /\ r.remaining = b.limitAmount - spent
       /\ 2 * (r.percentageUsed * b.limitAmount - spent * 1000) <= b.limitAmount
       /\ 2 * (spent * 1000 - r.percentageUsed * b.limitAmount) <= b.limitAmount
       /\ r.alertStatus =
            IF spent * 100 >= 100 * b.limitAmount THEN "over"
            ELSE IF spent * 100 >= 80 * b.limitAmount THEN "near"
            ELSE "ok"

\* C16: getBudgetAlerts returns each budget the listing holds whose
\* alertStatus is not ok, once, and nothing else; every over budget stands
\* before every near budget, and within one tier percentageUsed does not rise.
AlertsFilteredAndOrdered ==
  summary # NoSummary /\ summary.op = "getBudgetAlerts" =>
    LET all == summary.all
        result == summary.result
        flagged == {all[i] : i \in {k \in 1..Len(all) : all[k].alertStatus # "ok"}}
    IN /\ {result[i] : i \in 1..Len(result)} = flagged
       /\ Len(result) = Cardinality(flagged)
       /\ \A i, j \in 1..Len(result) :
            i < j =>
              /\ ~(result[i].alertStatus = "near" /\ result[j].alertStatus = "over")
              /\ result[i].alertStatus = result[j].alertStatus
                   => result[i].percentageUsed >= result[j].percentageUsed

AlertsFilteredAndOrderedWitness ==
  /\ summary # NoSummary
  /\ summary.op = "getBudgetAlerts"
  /\ \E i, j \in 1..Len(summary.result) :
       /\ i < j
       /\ summary.result[i].alertStatus = "over"
       /\ summary.result[j].alertStatus = "near"
  /\ \E i \in 1..Len(summary.all) :
       \E j \in 1..Len(summary.all) :
         /\ i < j
         /\ summary.all[i].alertStatus = "near"
         /\ summary.all[j].alertStatus = "over"

\* C17: a finished getAlerts either failed as a whole, which it does exactly
\* when one of the three checks failed, or all three checks completed and it
\* returned the budget alerts with nudges = the weekend nudge if any, the
\* under-budget nudge if any, then the goal nudges as supplied.
GetAlertsAllOrNothing ==
  agg.pc = "done" =>
    LET failed == \E k \in DOMAIN agg.tasks : agg.tasks[k].st = "failed" IN
    /\ failed => agg.result = [kind |-> "failed"]
    /\ ~failed =>
         /\ \A k \in DOMAIN agg.tasks : agg.tasks[k].st = "ok"
         /\ agg.result.kind = "ok"
         /\ agg.result.budgetAlerts = agg.tasks.alerts.value
         /\ agg.result.nudges =
              (IF agg.tasks.weekend.value # NoNudge
               THEN <<agg.tasks.weekend.value>> ELSE <<>>)
              \o (IF agg.tasks.under.value # NoNudge
                  THEN <<agg.tasks.under.value>> ELSE <<>>)
              \o agg.goalNudges

GetAlertsAllOrNothingWitness ==
  /\ agg.pc = "done"
  /\ agg.tasks.alerts.st = "ok"
  /\ Len(agg.tasks.alerts.value) > 0
  /\ agg.tasks.under.st = "failed"
  /\ agg.result = [kind |-> "failed"]

\* C18: the budget alerts a requester gets, the administrator too, are those
\* computed from the requester's own budgets and transactions alone.
AlertsScopedToRequester ==
  summary # NoSummary /\ summary.op = "getBudgetAlerts" =>
    LET own == {b \in budgets : b.userId = summary.userId}
        ownLedger == {t \in ledger : t.userId = summary.userId}
        ownAlerts(rows) ==
          SortAlerts(SelectSeq([i \in 1..Len(rows) |->
                                  EnrichWithSummary(ownLedger, rows[i])], NotOk))
    IN \E rows \in SeqsOf(own) : summary.result = ownAlerts(rows)

\* C20: in every state reached by TransactionsService.create and update
\* calls, every stored transaction of type expense has incomeSource null.
ExpenseHasNoIncomeSource ==
  \A t \in ledger : t.type = "expense" => t.incomeSource = "null"

\* An income row with an income source has been updated with a body that
\* changes its type to expense and supplies an income source.
ExpenseHasNoIncomeSourceWitness ==
  /\ access # AccessIdle
  /\ access.entity = "transaction"
  /\ access.op = "update"
  /\ access.outcome = "ok"
  /\ access.body.type = "expense"
  /\ access.body.incomeSource = " salary "
  /\ \E t \in access.before :
       t.id = access.id /\ t.type = "income" /\ t.incomeSource = "salary"
  /\ access.result \in ledger
  /\ access.result.type = "expense"

\* C19: a by-id call (findById, update, delete, allocate, withdraw,
\* correctCategory) on a goal, budget or transaction is answered not-found
\* when the id is not in the table, and forbidden when the row is there and
\* the requester is neither its owner nor an administrator; either way the
\* table is left as it was.  A list call of a requester who is not an
\* administrator returns rows of that requester only.
OwnershipEnforced ==
  access # AccessIdle =>
    IF access.op = "findAll"
    THEN RoleOf(access.userId) # "ADMIN"
         => \A r \in AccessListed(access) : r.userId = access.userId
    ELSE IF ~\E r \in access.before : r.id = access.id
    THEN /\ access.outcome = "not_found"
         /\ AccessTable(access.entity) = access.before
    ELSE LET row == CHOOSE r \in access.before : r.id = access.id IN
         (RoleOf(access.userId) # "ADMIN" /\ row.userId # access.userId)
         => /\ access.outcome = "forbidden"
            /\ AccessTable(access.entity) = access.before

\* A user's update of a transaction that belongs to someone else, with a body
\* that would have changed the row, has been answered.
OwnershipEnforcedWitness ==
  /\ access # AccessIdle
  /\ access.entity = "transaction"
  /\ access.op = "update"
  /\ access.body.type = "expense"
  /\ RoleOf(access.userId) # "ADMIN"
  /\ \E t \in access.before : t.id = access.id /\ t.userId # access.userId
  /\ access.outcome = "forbidden"
  /\ ledger = access.before

\* C27: no lost update on a goal balance: whatever the order of the read and
\* write steps of concurrent requests, the write of an allocate leaves the
\* stored currentAmount larger by its amount than it was just before, and the
\* write of a withdraw smaller by its amount; so two completed allocations of
\* a1 and a2 add a1 + a2, and withdrawals never take more than was there.
NoLostUpdate ==
  [][ \A r \in 1..2 :
        (/\ greq[r].pc = "loaded"
         /\ greq'[r].pc = "idle"
         /\ \E g \in goals : g.id = greq[r].id)
        => \E g \in goals, h \in goals' :
             /\ g.id = greq[r].id
             /\ h.id = greq[r].id
             /\ h.currentAmount =
                  IF greq[r].op = "allocate"
                  THEN g.currentAmount + greq[r].amount
                  ELSE g.currentAmount - greq[r].amount ]_vars

\* C26: a goal is reported completed exactly when its stored currentAmount
\* has reached its targetAmount, also for an amount just below the target
\* whose percentage rounds to 100.0.
CompletedIffReached ==
  progress # NoProgress =>
    (progress.status = "completed" <=> pgoal.currentAmount >= pgoal.targetAmount)

\* C29: a create call that ends in an error leaves no row of its own in the
\* ledger: the ledger holds as many rows as the call found, and none with the
\* id the call was given.
CreateAtomic ==
  (tx.pc = "done" /\ tx.result # "ok") =>
    /\ Cardinality(ledger) = tx.before
    /\ ~\E t \in ledger : t.id = tx.id

\* C30: currentAmount is written only by allocate and withdraw: a created
\* goal starts with currentAmount 0 whatever its request carried, and a step
\* that changes the stored currentAmount of a goal is an accepted allocate or
\* withdraw on that goal; update, delete and the reads leave it as it is.
CurrentAmountFrame ==
  [][ /\ \A h \in goals' :
           (~\E g \in goals : g.id = h.id) => h.currentAmount = 0
      /\ \A g \in goals, h \in goals' :
           (g.id = h.id /\ g.currentAmount # h.currentAmount)
           => /\ glast'.op \in {"allocate", "withdraw"}
              /\ glast'.id = g.id
              /\ glast'.result = "ok" ]_vars

\* An update has changed the target of a goal that holds a balance.
CurrentAmountFrameWitness ==
  /\ glast.op = "update"
  /\ glast.result = "ok"
  /\ glast.amount # 0
  /\ \E g \in goals :
       g.id = glast.id /\ g.currentAmount > 0 /\ g.targetAmount = glast.amount

\* C28: no expense is counted twice across budgets of one user and one
\* category: the transactions summed into the totalSpent of two such budgets
\* are disjoint, also for an expense dated at the instant where one window
\* ends and the next begins.
NoDoubleCounting ==
  \A b1 \in budgets, b2 \in budgets :
    (/\ b1.id # b2.id
     /\ b1.userId = b2.userId
     /\ b1.categoryId = b2.categoryId)
    => SpendingRows(ledger, b1) \cap SpendingRows(ledger, b2) = {}

\* C21: a correction that is accepted returns the row with the new
\* categoryId, which is the row then stored, with suggestedCategoryId and
\* categoryConfidence as they were; this is so while the feedback request is
\* pending and however it has ended, and the promise of sendFeedback is never
\* rejected.
FeedbackFireAndForget ==
  /\ (feedback # FeedbackIdle /\ feedback.pc = "settled")
     => feedback.promise = "fulfilled"
  /\ (access # AccessIdle /\ access.op = "correctCategory" /\ access.outcome = "ok")
     => LET old == CHOOSE t \in access.before : t.id = access.id IN
        /\ access.result = [old EXCEPT !.categoryId = access.body.categoryId]
        /\ access.result.suggestedCategoryId = old.suggestedCategoryId
        /\ access.result.categoryConfidence = old.categoryConfidence
        /\ ledger = (access.before \ {old}) \cup {access.result}

\* A correction of a row that carries a suggestion has been answered while
\* its feedback request is still pending.
FeedbackFireAndForgetWitness ==
  /\ access # AccessIdle
  /\ access.op = "correctCategory"
  /\ access.outcome = "ok"
  /\ access.result \in ledger
  /\ access.result.suggestedCategoryId # NoCategory
  /\ \E t \in access.before :
       t.id = access.id /\ t.categoryId # access.result.categoryId
  /\ feedback # FeedbackIdle
  /\ feedback.pc = "pending"

\* C24: a budget of the requester qualifies iff its endAt is not before now,
\* its percentageUsed is below 85 and a quarter of its window has elapsed;
\* getUnderBudgetNudge answers a nudge iff some budget qualifies, with the
\* label of the budget when one qualifies and with the count otherwise.
UnderBudgetPraise ==
  summary.op = "underBudget" =>
    LET qualifying ==
          {b \in budgets :
             /\ b.userId = summary.userId
             /\ b.endAt >= summary.now
             /\ EnrichWithSummary(ledger, b).percentageUsed < 850
             /\ summary.now >= b.startAt
             /\ 4 * (summary.now - b.startAt) >= b.endAt - b.startAt}
    IN /\ summary.result # NullNudge <=> qualifying # {}
       /\ Cardinality(qualifying) = 1 =>
            /\ summary.result # NullNudge
            /\ summary.result.message.kind = "single"
            /\ \E b \in qualifying : summary.result.message.label = BudgetLabel(b)
       /\ Cardinality(qualifying) > 1 =>
            /\ summary.result # NullNudge
            /\ summary.result.message = CountMessage(Cardinality(qualifying))

CategorySpikeWholeMonth ==
  summary.op = "categorySpikes" =>
    \A cat \in CategoryTable :
      LET rows(first, last) ==
            {t \in ledger : /\ t.userId = summary.userId
                            /\ t.type = "expense"
                            /\ t.categoryId = cat.id
                            /\ first <= t.date
                            /\ t.date <= last}
          thisStart == ThisMonthStart(summary.now)
          nextStart == CHOOSE x \in {msPerDay * d : d \in MonthStartDays} :
                         /\ x > thisStart
                         /\ LastMonthStart(x) = thisStart
          thisMonth == SumAmount(rows(thisStart, nextStart - 1))
          lastMonth == SumAmount(rows(LastMonthStart(summary.now), thisStart - 1))
          count == Cardinality({i \in DOMAIN summary.result :
                                  summary.result[i].slug = cat.slug})
      IN IF cat.slug # "income" /\ lastMonth > 0 /\ thisMonth >= 2 * lastMonth
         THEN count = 1
         ELSE count = 0

\* C23, with this month's sum taken up to the instant of the call: the same,
\* where an expense dated later than now does not count.
CategorySpikeMonthToDate ==
  summary.op = "categorySpikes" =>
    /\ \A i \in DOMAIN summary.result :
         /\ summary.result[i].type = "category_spike"
         /\ \E cat \in CategoryTable : cat.slug = summary.result[i].slug
    /\ \A cat \in CategoryTable :
         LET rows(first, last) ==
               {t \in ledger : /\ t.userId = summary.userId
                               /\ t.type = "expense"
                               /\ t.categoryId = cat.id
                               /\ first <= t.date
                               /\ t.date <= last}
             thisStart == ThisMonthStart(summary.now)
             thisMonth == SumAmount(rows(thisStart, summary.now))
             lastMonth == SumAmount(rows(LastMonthStart(summary.now), thisStart - 1))
             count == Cardinality({i \in DOMAIN summary.result :
                                     summary.result[i].slug = cat.slug})
         IN IF cat.slug # "income" /\ lastMonth > 0 /\ thisMonth >= 2 * lastMonth
            THEN count = 1
            ELSE count = 0

\* Food expenses of 1800.00 in February and 4000.00 in March so far have
\* produced the insight for food.
CategorySpikeMonthToDateWitness ==
  /\ summary.op = "categorySpikes"
  /\ summary.result = <<SpikeInsight([id |-> "c1", slug |-> "food"])>>
  /\ LastMonthSum(summary.userId, [id |-> "c1", slug |-> "food"], summary.now)
       = 180000 * Cent
  /\ ThisMonthSum(summary.userId, [id |-> "c1", slug |-> "food"], summary.now)
       = 400000 * Cent

\* C22: over the requester's expenses of the trailing 30 days, with the
\* average of the weekend days and of the weekdays taken per distinct day
\* that has an expense, weekendInsight answers an insight, and
\* getWeekendOverspendNudge a nudge, iff the weekday average is above 0 and
\* the weekend average is at least 1.2 times it; so the two agree.
WeekendPatternRule ==
  summary.op = "weekend" =>
    LET rows(weekend) ==
          {t \in ledger : /\ t.userId = summary.userId
                          /\ t.type = "expense"
                          /\ summary.now - 30 * msPerDay <= t.date
                          /\ t.date <= summary.now
                          /\ (((4 + t.date \div msPerDay) % 7) \in {0, 6}) = weekend}
        days(weekend) == Cardinality({t.date \div msPerDay : t \in rows(weekend)})
        cents(weekend) == SumAmount(rows(weekend)) \div Cent
        rule == /\ cents(FALSE) > 0
                /\ days(TRUE) > 0
                /\ 10 * cents(TRUE) * days(FALSE) >= 12 * cents(FALSE) * days(TRUE)
    IN /\ summary.insight # NoNudge <=> rule
       /\ summary.nudge # NoNudge <=> rule

====
